---- MODULE Spec2Model ----
(***************************************************************************)
(* A model of gpu_specter's divide-and-conquer extraction scaffolding      *)
(* (py/gpu_specter/core.py) and of its command line driver                 *)
(* (py/gpu_specter/spex.py).                                               *)
(*                                                                         *)
(* The module holds several specifications over one set of variables; each *)
(* specification drives one part of the program and leaves the variables   *)
(* of the other parts at their idle values:                                *)
(*   SpecPartition  the patch partitioner of extract_bundle                *)
(*   SpecAssemble   partition, per-patch extraction and                    *)
(*                  assemble_bundle_patches of one bundle                  *)
(*   SpecFrame      the frame assembly at the end of extract_frame         *)
(*   SpecTopo       decompose_comm and the bundle ownership it induces     *)
(*   SpecMain       main_gpu_specter and its pre-flight checks             *)
(***************************************************************************)
EXTENDS Integers, Sequences, FiniteSets, TLC

VARIABLES
    \* ---- one bundle: extract_bundle and assemble_bundle_patches
    pcB,          \* position in extract_bundle
    bargs,        \* the arguments of extract_bundle that shape the patches
    subbundles,   \* list of lists of Patch (core.py:226)
    results,      \* list of (patch, result) pairs (core.py:240)
    rankresults,  \* the argument handed to assemble_bundle_patches
    bundle,       \* what assemble_bundle_patches returned (or raised)
    \* ---- the frame assembly of extract_frame
    pcF,          \* position in the frame assembly
    fargs,        \* the arguments of extract_frame that shape the frame
    rankbundles,  \* list of lists of (bspecmin, bundle) pairs (core.py:596, 599)
    frame,        \* the frame extract_frame returns (or what it raised)
    \* ---- the workers of extract_frame up to their bundle loop
    pcW,          \* per worker: position in extract_frame
    targs,        \* communicator size, accelerator flag, devices, override, frame
    topo,         \* per worker: what decompose_comm computed and returned
    collectives,  \* per worker: the collective operations entered, in order
    owned,        \* per worker: bspecmins[bundle_start::bundle_step]
    \* ---- one process running main_gpu_specter
    pcM,          \* position in main_gpu_specter
    margs,        \* the parsed options, the comm argument and the devices
    mrun,         \* what the run has done so far and how it ended
    \* ---- the workers of one bundle group inside extract_bundle
    pcX,          \* per worker: position in extract_bundle
    xargs,        \* the arguments of extract_bundle and the communicator
    xsub,         \* per worker: its own subbundles list (core.py:226)
    xres,         \* per worker: its results list (core.py:240)
    xlog,         \* per worker: the writes of xyslice and the appends to results
    xsent,        \* per worker: what it handed to the gather
    xroot,        \* rank 0: rankresults and the assembled bundle
    \* ---- the workers of extract_frame in and after their bundle loop
    pcL,          \* per worker: position in extract_frame
    largs,        \* the communicator, the accelerator flag and the frame
    lidx,         \* per worker: how many bundles of its loop it has finished
    lbundles,     \* per worker: its bundles list (core.py:548, 570)
    lcoll,        \* per worker: the collective operations entered, in order
    lraised,      \* per worker: the exception that ended it, if any
    lgathered,    \* the frame root: the gathered lists (core.py:584-596)
    \* ---- the workers of one call of extract_frame, from its arguments
    pcC,          \* per worker: position in extract_frame
    cargs,        \* how extract_frame is called, the communicator, the frame
    cimg,         \* per worker: imgpixels (core.py:490-499)
    csupplied,    \* per worker: it took imgpixels from img (core.py:491-493)
    cstaged,      \* per worker: rankbundles after the loop (core.py:579-599)
    cread,        \* per worker: it read rankbundles (core.py:606-613)
    cframe        \* per worker: what extract_frame returned or raised

bundleVars == <<pcB, bargs, subbundles, results, rankresults, bundle>>
frameVars == <<pcF, fargs, rankbundles, frame>>
topoVars == <<pcW, targs, topo, collectives, owned>>

mainVars == <<pcM, margs, mrun>>

extractVars == <<pcX, xargs, xsub, xres, xlog, xsent, xroot>>

loopVars == <<pcL, largs, lidx, lbundles, lcoll, lraised, lgathered>>

callVars == <<pcC, cargs, cimg, csupplied, cstaged, cread, cframe>>

vars == <<bundleVars, frameVars, topoVars, mainVars, extractVars, loopVars, callVars>>

----------------------------------------------------------------------------
(* Bounds of the model *)

MaxBundleSize == 4      \* partitioner: largest bundlesize tried
MaxNwave == 6           \* partitioner: largest number of wavelength bins tried
MaxNwavestep == 4       \* partitioner: largest wavelength step tried
MaxWavepad == 2         \* partitioner: largest wavelength padding tried
MaxPatches == 2         \* assembly: largest number of patches in a bundle
MaxAsmNwave == 3        \* assembly: largest nwave and nwavestep tried
MaxBundles == 3         \* frame: largest number of bundles in a frame
MaxSize == 4            \* topology: largest number of workers
MaxDevices == 3         \* topology: largest number of accelerator devices

----------------------------------------------------------------------------
(* Python and numpy primitives *)

None == <<>>

Min(a, b) == IF a <= b THEN a ELSE b
Max(a, b) == IF a >= b THEN a ELSE b

\* list(range(start, stop, step)) for step >= 1
RECURSIVE PyRange(_, _, _)
PyRange(start, stop, step) ==
    IF start >= stop THEN <<>>
    ELSE <<start>> \o PyRange(start + step, stop, step)

\* np.s_[start:stop]
Slice(start, stop) == [start |-> start, stop |-> stop]

\* the indices slice(start, stop) selects on an axis of length n
\* (negative bounds count from the end, both bounds are clipped)
SliceClip(x, n) == IF x < 0 THEN Max(x + n, 0) ELSE Min(x, n)
SliceIndices(sl, n) ==
    LET a == SliceClip(sl.start, n)
        b == SliceClip(sl.stop, n)
    IN  IF a >= b THEN <<>> ELSE [k \in 1..(b - a) |-> a + k - 1]

SeqRange(s) == {s[k] : k \in 1..Len(s)}

\* flatten a list of lists
RECURSIVE Flatten(_)
Flatten(ll) == IF ll = <<>> THEN <<>> ELSE Head(ll) \o Flatten(Tail(ll))

----------------------------------------------------------------------------
(* numpy arrays: a shape and a function from index tuples (from 0) *)

Zeros2(r, c) ==
    [shape |-> <<r, c>>, a |-> [ij \in (0..(r - 1)) \X (0..(c - 1)) |-> 0]]

Zeros3(r, d, c) ==
    [shape |-> <<r, d, c>>,
     a |-> [ijk \in (0..(r - 1)) \X (0..(d - 1)) \X (0..(c - 1)) |-> 0]]

\* position (from 1) of index i in the index list L, 0 when absent
Pos(L, i) == IF \E m \in 1..Len(L) : L[m] = i
             THEN CHOOSE m \in 1..Len(L) : L[m] = i ELSE 0

\* a source axis of length n fits a target axis of length m when the lengths
\* agree or the source axis has length 1 (numpy broadcasting)
Fits(n, m) == n = m \/ n = 1
Bcast(n, m) == IF n = 1 THEN 1 ELSE m

\* T[rsl, csl] = S[:, ksl]
SetSlice2(T, rsl, csl, S, ksl) ==
    LET R == SliceIndices(rsl, T.shape[1])
        W == SliceIndices(csl, T.shape[2])
        K == SliceIndices(ksl, S.shape[2])
        ok == Fits(S.shape[1], Len(R)) /\ Fits(Len(K), Len(W))
    IN  [ok |-> ok,
         arr |-> IF ~ok THEN T ELSE
            [T EXCEPT !.a = [ij \in DOMAIN T.a |->
                LET m == Pos(R, ij[1])
                    n == Pos(W, ij[2])
                IN  IF m > 0 /\ n > 0
                    THEN S.a[<<Bcast(S.shape[1], m) - 1, K[Bcast(Len(K), n)]>>]
                    ELSE T.a[ij]]]]

\* T[rsl, :, csl] = S[:, :, ksl]
SetSlice3(T, rsl, csl, S, ksl) ==
    LET R == SliceIndices(rsl, T.shape[1])
        W == SliceIndices(csl, T.shape[3])
        K == SliceIndices(ksl, S.shape[3])
        ok == /\ Fits(S.shape[1], Len(R))
              /\ Fits(S.shape[2], T.shape[2])
              /\ Fits(Len(K), Len(W))
    IN  [ok |-> ok,
         arr |-> IF ~ok THEN T ELSE
            [T EXCEPT !.a = [ijk \in DOMAIN T.a |->
                LET m == Pos(R, ijk[1])
                    n == Pos(W, ijk[3])
                IN  IF m > 0 /\ n > 0
                    THEN S.a[<<Bcast(S.shape[1], m) - 1,
                               Bcast(S.shape[2], ijk[2] + 1) - 1,
                               K[Bcast(Len(K), n)]>>]
                    ELSE T.a[ijk]]]]

\* an image: shape (ny, nx), pixel values, and the pixels holding a
\* non-finite value (nan or inf)
ZeroImage(ny, nx) ==
    [isnone |-> FALSE, ny |-> ny, nx |-> nx,
     pix |-> [yx \in (0..(ny - 1)) \X (0..(nx - 1)) |-> 0],
     nonfinite |-> {}]

NoImage == [isnone |-> TRUE, ny |-> 0, nx |-> 0, pix |-> <<>>, nonfinite |-> {}]

\* patchmodel.any()
ImageAny(img) == (\E yx \in DOMAIN img.pix : img.pix[yx] # 0) \/ img.nonfinite # {}

\* np.all(np.isfinite(patchmodel))
ImageAllFinite(img) == img.nonfinite = {}

\* float('inf'), as min and max treat it
PosInf == 1000000
IsFinite(v) == -PosInf < v /\ v < PosInf

----------------------------------------------------------------------------
(* The per-patch solver (ex2d_padded), an external collaborator: its result *)
(* is drawn from a small set of results of the contracted shape.            *)

\* a value that tells the field, the patch and the position inside the patch
DenseTag(f, p, i, k) == f + 10 * (k + 10 * (i + 10 * (p.iwave + 10 * p.ispec)))

SolverArr2(f, p, zero) ==
    [shape |-> <<p.nspectra_per_patch, p.nwavestep>>,
     a |-> [ik \in (0..(p.nspectra_per_patch - 1)) \X (0..(p.nwavestep - 1)) |->
              IF zero THEN 0 ELSE DenseTag(f, p, ik[1], ik[2])]]

SolverArr3(f, p, zero) ==
    [shape |-> <<p.nspectra_per_patch, 2 * p.ndiag + 1, p.nwavestep>>,
     a |-> [idk \in (0..(p.nspectra_per_patch - 1)) \X (0..(2 * p.ndiag))
                      \X (0..(p.nwavestep - 1)) |->
              IF zero THEN 0 ELSE DenseTag(f, p, idk[1], idk[3]) + 100000 * idk[2]]]

\* the pixel box of a patch that lies on the image: its padded wavelength
\* window in rows, its spectra and one more column in columns, so that
\* neighbouring patches overlap
PatchBox(p) ==
    <<p.iwave - p.wavepad, p.iwave + p.nwavestep + p.wavepad,
      p.ispec, p.ispec + p.nspectra_per_patch + 1>>

ModelTag(p, y, x) == 1 + y + 10 * x + 100 * p.iwave + 1000 * p.ispec

SolverImage(p, kind) ==
    LET box == PatchBox(p)
        ny == box[2] - box[1]
        nx == box[4] - box[3]
    IN  IF kind = "on_none" THEN NoImage
        ELSE [isnone |-> FALSE, ny |-> ny, nx |-> nx,
              pix |-> [yx \in (0..(ny - 1)) \X (0..(nx - 1)) |->
                         IF kind = "on_vals" THEN ModelTag(p, yx[1], yx[2]) ELSE 0],
              nonfinite |-> IF kind = "on_nan" THEN {<<0, 0>>} ELSE {}]

\* off_*: the patch is off the image (xyslice None); on_*: it has a pixel box
\* and no model image, an all-zero one, one with a nan, or one with values
ResultKinds == {"off_zero", "off_vals", "on_none", "on_zero", "on_nan", "on_vals"}

SolverResult(p, kind) ==
    LET off == kind \in {"off_zero", "off_vals"}
        zero == kind = "off_zero"
    IN  [ kind |-> kind,
          xyslice |-> IF off THEN None ELSE PatchBox(p),
          flux |-> SolverArr2(1, p, zero),
          ivar |-> SolverArr2(2, p, zero),
          Rdiags |-> SolverArr3(3, p, zero),
          pixmask_fraction |-> SolverArr2(4, p, zero),
          chi2pix |-> SolverArr2(5, p, zero),
          modelimage |-> IF off THEN NoImage ELSE SolverImage(p, kind) ]

----------------------------------------------------------------------------
(* class Patch *)

\* nwavekeep = min(nwavestep, nwave - (iwave-wavepad))
NwavekeepNoMin(iwave, nwavestep, wavepad, nwave) == nwavestep
NwavekeepNoPad(iwave, nwavestep, wavepad, nwave) == Min(nwavestep, nwave - iwave)
Nwavekeep(iwave, nwavestep, wavepad, nwave) ==
    Min(nwavestep, nwave - (iwave - wavepad))

PatchBoxed(ispec, iwave, bspecmin, nspectra_per_patch, nwavestep, wavepad, nwave, bundlesize, ndiag) ==
    [ ispec |-> ispec,
      iwave |-> iwave,
      nspectra_per_patch |-> nspectra_per_patch,
      nwavestep |-> nwavestep,
      wavepad |-> wavepad,
      bspecmin |-> bspecmin,
      specslice |-> Slice(ispec - bspecmin, ispec - bspecmin + nspectra_per_patch),
      waveslice |-> Slice(iwave - wavepad, iwave - wavepad + nwavestep),
      keepslice |-> Slice(0, Min(nwavestep, nwave - (iwave - wavepad))),
      nwave |-> nwave,
      bundlesize |-> bundlesize,
      ndiag |-> ndiag,
      xyslice |-> <<0, 1, 0, 1>> ]

Patch(ispec, iwave, bspecmin, nspectra_per_patch, nwavestep, wavepad, nwave, bundlesize, ndiag) ==
    [ ispec |-> ispec,
      iwave |-> iwave,
      nspectra_per_patch |-> nspectra_per_patch,
      nwavestep |-> nwavestep,
      wavepad |-> wavepad,
      bspecmin |-> bspecmin,
      specslice |-> Slice(ispec - bspecmin, ispec - bspecmin + nspectra_per_patch),
      waveslice |-> Slice(iwave - wavepad, iwave - wavepad + nwavestep),
      keepslice |-> Slice(0, Nwavekeep(iwave, nwavestep, wavepad, nwave)),
      nwave |-> nwave,
      bundlesize |-> bundlesize,
      ndiag |-> ndiag,
      xyslice |-> None ]

----------------------------------------------------------------------------
(* assemble_bundle_patches *)

RaisedBundle(e) ==
    [ raised |-> e,
      specflux |-> Zeros2(0, 0), specivar |-> Zeros2(0, 0),
      Rdiags |-> Zeros3(0, 0, 0),
      pixmask_fraction |-> Zeros2(0, 0), chi2pix |-> Zeros2(0, 0),
      modelimage |-> NoImage, xyslice |-> None ]

NoBundle == RaisedBundle("notrun")

\* the global extent of the patches: the loop of lines 109-117, from patch k on
RECURSIVE Extent(_, _, _)
Extent(all, k, ext) ==
    IF k > Len(all) THEN ext
    ELSE LET xy == all[k][1].xyslice
         IN  IF xy = None THEN Extent(all, k + 1, ext)
             ELSE Extent(all, k + 1,
                         [ystart |-> Min(ext.ystart, xy[1]),
                          ystop  |-> Max(ext.ystop, xy[2]),
                          xstart |-> Min(ext.xstart, xy[3]),
                          xstop  |-> Max(ext.xstop, xy[4])])

EmptyExtent ==
    [ystart |-> PosInf, ystop |-> -PosInf, xstart |-> PosInf, xstop |-> -PosInf]

\* Skip if patchmodel is None, an array of None, or contains any nans
SkipPatchmodelNoFiniteTest(patchmodel) ==
    \/ patchmodel.isnone
    \/ ~ImageAny(patchmodel)

SkipPatchmodel(patchmodel) ==
    \/ patchmodel.isnone
    \/ ~ImageAny(patchmodel)
    \/ ~ImageAllFinite(patchmodel)

\* img[ysl, xsl] += src
AddAtOverwrite(img, ysl, xsl, src) ==
    LET Y == SliceIndices(ysl, img.ny)
        X == SliceIndices(xsl, img.nx)
        ok == Fits(src.ny, Len(Y)) /\ Fits(src.nx, Len(X))
    IN  [ok |-> ok,
         img |-> IF ~ok THEN img ELSE
            [img EXCEPT !.pix = [yx \in DOMAIN img.pix |->
                LET m == Pos(Y, yx[1])
                    n == Pos(X, yx[2])
                IN  IF m > 0 /\ n > 0
                    THEN src.pix[<<Bcast(src.ny, m) - 1, Bcast(src.nx, n) - 1>>]
                    ELSE img.pix[yx]],
              !.nonfinite = {yx \in DOMAIN img.pix :
                LET m == Pos(Y, yx[1])
                    n == Pos(X, yx[2])
                IN  IF m > 0 /\ n > 0
                    THEN <<Bcast(src.ny, m) - 1, Bcast(src.nx, n) - 1>> \in src.nonfinite
                    ELSE yx \in img.nonfinite}]]

AddAt(img, ysl, xsl, src) ==
    LET Y == SliceIndices(ysl, img.ny)
        X == SliceIndices(xsl, img.nx)
        ok == Fits(src.ny, Len(Y)) /\ Fits(src.nx, Len(X))
    IN  [ok |-> ok,
         img |-> IF ~ok THEN img ELSE
            [img EXCEPT !.pix = [yx \in DOMAIN img.pix |->
                LET m == Pos(Y, yx[1])
                    n == Pos(X, yx[2])
                IN  IF m > 0 /\ n > 0
                    THEN img.pix[yx]
                         + src.pix[<<Bcast(src.ny, m) - 1, Bcast(src.nx, n) - 1>>]
                    ELSE img.pix[yx]],
              \* a sum with a nan or an inf is not finite
              !.nonfinite = {yx \in DOMAIN img.pix :
                \/ yx \in img.nonfinite
                \/ LET m == Pos(Y, yx[1])
                       n == Pos(X, yx[2])
                   IN  /\ m > 0
                       /\ n > 0
                       /\ <<Bcast(src.ny, m) - 1, Bcast(src.nx, n) - 1>> \in src.nonfinite}]]

\* modelimage[ymin:ymin+patchny, xmin:xmin+patchnx] += patchmodel
AddImageOverwrite(img, ymin, xmin, patchmodel) ==
    AddAtOverwrite(img, Slice(ymin, ymin + patchmodel.ny),
                   Slice(xmin, xmin + patchmodel.nx), patchmodel)

AddImage(img, ymin, xmin, patchmodel) ==
    AddAt(img, Slice(ymin, ymin + patchmodel.ny),
          Slice(xmin, xmin + patchmodel.nx), patchmodel)

\* one pass of the loop of lines 123-153 over (patch, result)
PutPatch(acc, patch, result, ext) ==
    IF acc.raised # "no" THEN acc
    ELSE IF patch.xyslice = None THEN acc
    ELSE
      LET fl == SetSlice2(acc.specflux, patch.specslice, patch.waveslice,
                          result.flux, patch.keepslice)
          iv == SetSlice2(acc.specivar, patch.specslice, patch.waveslice,
                          result.ivar, patch.keepslice)
          rd == SetSlice3(acc.Rdiags, patch.specslice, patch.waveslice,
                          result.Rdiags, patch.keepslice)
          pm == SetSlice2(acc.pixmask_fraction, patch.specslice, patch.waveslice,
                          result.pixmask_fraction, patch.keepslice)
          ch == SetSlice2(acc.chi2pix, patch.specslice, patch.waveslice,
                          result.chi2pix, patch.keepslice)
          dense == [acc EXCEPT !.specflux = fl.arr, !.specivar = iv.arr,
                               !.Rdiags = rd.arr, !.pixmask_fraction = pm.arr,
                               !.chi2pix = ch.arr]
          patchmodel == result.modelimage
      IN  IF ~(fl.ok /\ iv.ok /\ rd.ok /\ pm.ok /\ ch.ok)
          THEN RaisedBundle("ValueError")
          ELSE IF SkipPatchmodel(patchmodel) THEN dense
          ELSE LET ymin == patch.xyslice[1] - ext.ystart
                   xmin == patch.xyslice[3] - ext.xstart
                   added == AddImage(dense.modelimage, ymin, xmin, patchmodel)
               IN  IF ~added.ok THEN RaisedBundle("ValueError")
                   ELSE [dense EXCEPT !.modelimage = added.img]

RECURSIVE PutPatches(_, _, _, _)
PutPatches(acc, all, k, ext) ==
    IF k > Len(all) THEN acc
    ELSE PutPatches(PutPatch(acc, all[k][1], all[k][2], ext), all, k + 1, ext)

\* lines 101-120: the zeroed output arrays, the model image over the global
\* extent and the extent itself
Allocate(allresults, ext) ==
    LET patch == allresults[1][1]
        nwave == patch.nwave
        bundlesize == patch.bundlesize
        ndiag == patch.ndiag
    IN  [ raised |-> "no",
          specflux |-> Zeros2(bundlesize, nwave),
          specivar |-> Zeros2(bundlesize, nwave),
          Rdiags |-> Zeros3(bundlesize, 2 * ndiag + 1, nwave),
          pixmask_fraction |-> Zeros2(bundlesize, nwave),
          chi2pix |-> Zeros2(bundlesize, nwave),
          modelimage |-> ZeroImage(ext.ystop - ext.ystart, ext.xstop - ext.xstart),
          xyslice |-> <<ext.ystart, ext.ystop, ext.xstart, ext.xstop>> ]

assemble_bundle_patches(rr) ==
    LET allresults == Flatten(rr) IN
    IF allresults = <<>> THEN RaisedBundle("IndexError")
    ELSE
      LET ext == Extent(allresults, 1, EmptyExtent)
          ny == ext.ystop - ext.ystart
          nx == ext.xstop - ext.xstart
      IN  \* xp.zeros((ny, nx)) takes integers only, and none below zero
          IF ~(IsFinite(ny) /\ IsFinite(nx)) THEN RaisedBundle("TypeError")
          ELSE IF ny < 0 \/ nx < 0 THEN RaisedBundle("ValueError")
          ELSE PutPatches(Allocate(allresults, ext), allresults, 1, ext)

----------------------------------------------------------------------------
(* extract_bundle: organize what sub-bundle patches to extract *)

\* the starting wavelength indices of the tiles of one sub-bundle
WaveStartsShort(a) == PyRange(a.wavepad, a.nwave, a.nwavestep)
WaveStarts(a) == PyRange(a.wavepad, a.wavepad + a.nwave, a.nwavestep)

\* the starting spectra of the sub-bundles
SpecStarts(a) ==
    PyRange(a.bspecmin, a.bspecmin + a.bundlesize, a.bundlesize \div a.nsubbundles)

OrganizedPatches(a) ==
    LET nspectra_per_patch == a.bundlesize \div a.nsubbundles
        ispecs == SpecStarts(a)
        iwaves == WaveStarts(a)
    IN  [s \in 1..Len(ispecs) |->
            [w \in 1..Len(iwaves) |->
                Patch(ispecs[s], iwaves[w], a.bspecmin, nspectra_per_patch,
                      a.nwavestep, a.wavepad, a.nwave, a.bundlesize, a.ndiag)]]

\* range() refuses a zero step: nsubbundles > bundlesize raises ValueError
OrganizePatches ==
    /\ pcB = "start"
    /\ bargs.bundlesize \div bargs.nsubbundles >= 1
    /\ subbundles' = OrganizedPatches(bargs)
    /\ pcB' = "organized"
    /\ UNCHANGED <<bargs, results, rankresults, bundle>>
    /\ UNCHANGED <<frameVars, topoVars, mainVars, extractVars, loopVars, callVars>>

AllPatches == Flatten(subbundles)

\* the workers' start of extract_frame is not part of the run
TopoIdle ==
    /\ pcW = <<>>
    /\ targs = <<>>
    /\ topo = <<>>
    /\ collectives = <<>>
    /\ owned = <<>>

\* main_gpu_specter is not part of the run
MainIdle ==
    /\ pcM = "idle"
    /\ margs = <<>>
    /\ mrun = <<>>

\* the workers of extract_bundle are not part of the run
ExtractIdle ==
    /\ pcX = <<>>
    /\ xargs = <<>>
    /\ xsub = <<>>
    /\ xres = <<>>
    /\ xlog = <<>>
    /\ xsent = <<>>
    /\ xroot = <<>>

\* the bundle loops of the workers are not part of the run
LoopIdle ==
    /\ pcL = <<>>
    /\ largs = <<>>
    /\ lidx = <<>>
    /\ lbundles = <<>>
    /\ lcoll = <<>>
    /\ lraised = <<>>
    /\ lgathered = <<>>

\* the call of extract_frame is not part of the run
CallIdle ==
    /\ pcC = <<>>
    /\ cargs = <<>>
    /\ cimg = <<>>
    /\ csupplied = <<>>
    /\ cstaged = <<>>
    /\ cread = <<>>
    /\ cframe = <<>>

\* the frame assembly is not part of the run
FrameIdle ==
    /\ pcF = "idle"
    /\ fargs = <<>>
    /\ rankbundles = <<>>
    /\ frame = <<>>

BundleArgs(bspecmin, bundlesize, nsubbundles, nwave, nwavestep, wavepad, ndiag) ==
    [ bspecmin |-> bspecmin, bundlesize |-> bundlesize, nsubbundles |-> nsubbundles,
      nwave |-> nwave, nwavestep |-> nwavestep, wavepad |-> wavepad, ndiag |-> ndiag ]

\* a bundle of 25 spectra in one sub-bundle, 100 wavelength bins in steps of
\* 50, padded by 10 (the defaults of extract_bundle and extract_frame)
DefaultBundle == BundleArgs(0, 25, 1, 100, 50, 10, 1)

InitPartition ==
    /\ pcB = "start"
    /\ \/ \E bundlesize \in 1..MaxBundleSize, nsubbundles \in 1..MaxBundleSize,
             nwave \in 1..MaxNwave, nwavestep \in 1..MaxNwavestep,
             wavepad \in 0..MaxWavepad, k \in 0..1 :
               bargs = BundleArgs(k * bundlesize, bundlesize, nsubbundles,
                                  nwave, nwavestep, wavepad, 1)
       \/ bargs = DefaultBundle
    /\ subbundles = <<>>
    /\ results = <<>>
    /\ rankresults = <<>>
    /\ bundle = NoBundle
    /\ FrameIdle
    /\ TopoIdle
    /\ MainIdle
    /\ ExtractIdle
    /\ LoopIdle
    /\ CallIdle

NextPartition == OrganizePatches

SpecPartition == InitPartition /\ [][NextPartition]_vars

----------------------------------------------------------------------------
(* extract_bundle without a communicator, one patch per solver call *)

NTiles == Len(WaveStarts(bargs))

\* the patch at position k (from 1) of the flattened list of line 281
PatchAt(k) == subbundles[((k - 1) \div NTiles) + 1][((k - 1) % NTiles) + 1]

\* lines 282-293: the next patch of patches[rank::size], rank 0 of 1
ExtractPatch ==
    /\ pcB = "organized"
    /\ Len(results) < Len(AllPatches)
    /\ LET k == Len(results) + 1
           s == ((k - 1) \div NTiles) + 1
           w == ((k - 1) % NTiles) + 1
       IN  \E kind \in ResultKinds :
             LET result == SolverResult(PatchAt(k), kind)
                 patch == [PatchAt(k) EXCEPT !.xyslice = result.xyslice]
             IN  /\ subbundles' = [subbundles EXCEPT ![s][w] = patch]
                 /\ results' = Append(results, <<patch, result>>)
    /\ UNCHANGED <<pcB, bargs, rankresults, bundle>>
    /\ UNCHANGED <<frameVars, topoVars, mainVars, extractVars, loopVars, callVars>>

\* lines 356-368: rankresults = [results,], then the assembly on rank 0
AssembleBundle ==
    /\ pcB = "organized"
    /\ Len(results) = Len(AllPatches)
    /\ rankresults' = <<results>>
    /\ bundle' = assemble_bundle_patches(rankresults')
    /\ pcB' = "assembled"
    /\ UNCHANGED <<bargs, subbundles, results>>
    /\ UNCHANGED <<frameVars, topoVars, mainVars, extractVars, loopVars, callVars>>

\* assemble_bundle_patches called with the pairs of the bundle in another
\* order and grouped into two per-rank lists
Permuted(s, perm) == [k \in 1..Len(s) |-> s[perm[k]]]

AssembleShuffled ==
    /\ pcB = "organized"
    /\ Len(results) = Len(AllPatches)
    /\ \E perm \in Permutations(1..Len(results)), cut \in 0..Len(results) :
         LET shuffled == Permuted(results, perm)
         IN  rankresults' = << SubSeq(shuffled, 1, cut),
                               SubSeq(shuffled, cut + 1, Len(shuffled)) >>
    /\ bundle' = assemble_bundle_patches(rankresults')
    /\ pcB' = "assembled"
    /\ UNCHANGED <<bargs, subbundles, results>>
    /\ UNCHANGED <<frameVars, topoVars, mainVars, extractVars, loopVars, callVars>>

NPatches(a) == Len(SpecStarts(a)) * Len(WaveStarts(a))

InitAssemble ==
    /\ pcB = "start"
    /\ \E bundlesize \in 1..2, nsubbundles \in 1..2,
          nwave \in 1..MaxAsmNwave, nwavestep \in 1..MaxAsmNwave,
          wavepad \in 0..1, ndiag \in 0..1 :
            /\ bundlesize % nsubbundles = 0
            /\ bargs = BundleArgs(0, bundlesize, nsubbundles,
                                  nwave, nwavestep, wavepad, ndiag)
            /\ NPatches(bargs) <= MaxPatches
    /\ subbundles = <<>>
    /\ results = <<>>
    /\ rankresults = <<>>
    /\ bundle = NoBundle
    /\ FrameIdle
    /\ TopoIdle
    /\ MainIdle
    /\ ExtractIdle
    /\ LoopIdle
    /\ CallIdle

NextAssemble ==
    \/ OrganizePatches
    \/ ExtractPatch
    \/ AssembleBundle
    \/ AssembleShuffled

SpecAssemble == InitAssemble /\ [][NextAssemble]_vars

----------------------------------------------------------------------------
(* Claims about the partitioner *)

\* the cells of the bundle array a patch claims: rows of specslice, columns
\* waveslice.start + k for k in keepslice
Cells(p) ==
    {<<i, p.waveslice.start + k>> :
        i \in p.specslice.start..(p.specslice.stop - 1),
        k \in p.keepslice.start..(p.keepslice.stop - 1)}

BundleCells(a) == (0..(a.bundlesize - 1)) \X (0..(a.nwave - 1))

Divisible(a) == a.bundlesize % a.nsubbundles = 0

\* C1: when bundlesize is divisible by nsubbundles, the kept cells of the
\* patches of a bundle are pairwise disjoint and their union is exactly
\* [0, bundlesize) x [0, nwave): no gap, no overlap, also when nwave is not
\* a multiple of nwavestep.
C1_PatchesTileBundle ==
    (pcB = "organized" /\ Divisible(bargs)) =>
        LET ps == AllPatches IN
        /\ UNION {Cells(ps[k]) : k \in 1..Len(ps)} = BundleCells(bargs)
        /\ \A j, k \in 1..Len(ps) : j # k => Cells(ps[j]) \cap Cells(ps[k]) = {}

\* a bundle with several sub-bundles and a final partial wavelength tile
C1_Witness ==
    /\ pcB = "organized"
    /\ Divisible(bargs)
    /\ bargs.nsubbundles >= 2
    /\ bargs.nwave % bargs.nwavestep # 0
    /\ bargs.nwave > bargs.nwavestep
    /\ bargs.wavepad >= 1

Ceil(n, d) == (n + d - 1) \div d

C14_WitnessPartialTile ==
    /\ pcB = "organized"
    /\ Len(subbundles) = 2
    /\ Len(subbundles[1]) = 3
    /\ bargs.nwave = 5
    /\ bargs.nwavestep = 2

\* C15: keepslice of every descriptor is [0, min(nwavestep, nwave - (iwave -
\* wavepad))); for the descriptors of the partitioner its length is at least
\* 1 and at most nwavestep, waveslice.start + length is at most nwave, and
\* only the last wavelength tile of a sub-bundle can be shorter than
\* nwavestep.
C15_KeepsliceIsShortest ==
    pcB = "organized" =>
        \A s \in 1..Len(subbundles) :
           \A w \in 1..Len(subbundles[s]) :
              LET p == subbundles[s][w]
                  length == p.keepslice.stop - p.keepslice.start
              IN  /\ p.keepslice.start = 0
                  /\ p.keepslice.stop = Min(p.nwavestep, p.nwave - (p.iwave - p.wavepad))
                  /\ length >= 1
                  /\ length <= p.nwavestep
                  /\ p.waveslice.start + length <= p.nwave
                  /\ length < p.nwavestep => w = Len(subbundles[s])

\* a last tile shorter than nwavestep after a full one
C15_Witness ==
    /\ pcB = "organized"
    /\ \E s \in 1..Len(subbundles) :
         LET n == Len(subbundles[s]) IN
         /\ n >= 2
         /\ subbundles[s][n].keepslice.stop < bargs.nwavestep
         /\ subbundles[s][1].keepslice.stop = bargs.nwavestep
         /\ bargs.wavepad >= 1

----------------------------------------------------------------------------
(* Claims about assemble_bundle_patches *)

\* the value the bundle array B must hold at cell (i, j) of a patch when the
\* kept part of the solver's array S was written to the patch's slot
KeptValue2(p, S, i, j) ==
    S.a[<<i - p.specslice.start, p.keepslice.start + (j - p.waveslice.start)>>]

KeptValue3(p, S, i, d, j) ==
    S.a[<<i - p.specslice.start, d, p.keepslice.start + (j - p.waveslice.start)>>]

SlotHoldsResult(p, r) ==
    \A c \in Cells(p) :
        /\ bundle.specflux.a[c] = KeptValue2(p, r.flux, c[1], c[2])
        /\ bundle.specivar.a[c] = KeptValue2(p, r.ivar, c[1], c[2])
        /\ bundle.pixmask_fraction.a[c] = KeptValue2(p, r.pixmask_fraction, c[1], c[2])
        /\ bundle.chi2pix.a[c] = KeptValue2(p, r.chi2pix, c[1], c[2])
        /\ \A d \in 0..(2 * p.ndiag) :
             bundle.Rdiags.a[<<c[1], d, c[2]>>] = KeptValue3(p, r.Rdiags, c[1], d, c[2])

SomeCoverage == \E k \in 1..Len(results) : results[k][1].xyslice # None
NoCoverage == \A k \in 1..Len(results) : results[k][1].xyslice = None

\* C2: a patch whose bounding box is None is not dropped: no error is raised
\* and its kept flux, ivar, Rdiags, pixmask_fraction and chi2pix, as the
\* solver returned them, are in its specslice x waveslice slot of the bundle
\* arrays.  (Stated for bundles in which some patch has pixel coverage; the
\* bundle without any coverage is the subject of C3.)
C2_NoneBoxPatchKeepsSlot ==
    (pcB = "assembled" /\ SomeCoverage) =>
        /\ bundle.raised = "no"
        /\ \A k \in 1..Len(results) :
             results[k][1].xyslice = None =>
                SlotHoldsResult(results[k][1], results[k][2])

\* C3: when no patch of the bundle has pixel coverage, the assembly raises
\* no error and returns an empty union box and a model image of zero extent.
C3_NoCoverageEmptyBox ==
    (pcB = "assembled" /\ NoCoverage) =>
        /\ bundle.raised = "no"
        /\ bundle.modelimage.ny = 0
        /\ bundle.modelimage.nx = 0
        /\ bundle.xyslice # None
        /\ bundle.xyslice[1] >= bundle.xyslice[2]
        /\ bundle.xyslice[3] >= bundle.xyslice[4]

BoxesOverlap(b, c) ==
    /\ Max(b[1], c[1]) < Min(b[2], c[2])
    /\ Max(b[3], c[3]) < Min(b[4], c[4])

Walked == Flatten(rankresults)

RECURSIVE LoopState(_)
LoopState(k) ==
    IF k = 0 THEN Allocate(Walked, Extent(Walked, 1, EmptyExtent))
    ELSE PutPatch(LoopState(k - 1), Walked[k][1], Walked[k][2],
                  Extent(Walked, 1, EmptyExtent))

ImageAbsent(img) == img.isnone
ImageAllZero(img) ==
    /\ ~img.isnone
    /\ img.nonfinite = {}
    /\ \A yx \in DOMAIN img.pix : img.pix[yx] = 0
ImageNonFinite(img) == ~img.isnone /\ img.nonfinite # {}

\* a pair the claim says adds nothing to the model image
NoContribution(pair) ==
    \/ pair[1].xyslice = None
    \/ ImageAbsent(pair[2].modelimage)
    \/ ImageAllZero(pair[2].modelimage)
    \/ ImageNonFinite(pair[2].modelimage)

ValueAt(pair, gy, gx) ==
    LET box == pair[1].xyslice IN
    IF NoContribution(pair) THEN 0
    ELSE IF box[1] <= gy /\ gy < box[2] /\ box[3] <= gx /\ gx < box[4]
    THEN pair[2].modelimage.pix[<<gy - box[1], gx - box[3]>>]
    ELSE 0

RECURSIVE SumAt(_, _, _)
SumAt(k, gy, gx) ==
    IF k = 0 THEN 0 ELSE SumAt(k - 1, gy, gx) + ValueAt(Walked[k], gy, gx)

\* C12: every pixel of the bundle model image is the sum, over the patches
\* with a box covering the pixel and a usable model image, of the patch's
\* model value at that pixel, the patch placed at its box origin minus the
\* origin of the union box; overlapping patches add up and a pixel no such
\* patch covers is zero.
C12_ModelImageIsSum ==
    (pcB = "assembled" /\ SomeCoverage) =>
        /\ bundle.raised = "no"
        /\ \A yx \in DOMAIN bundle.modelimage.pix :
              bundle.modelimage.pix[yx] =
                 SumAt(Len(Walked), yx[1] + bundle.xyslice[1], yx[2] + bundle.xyslice[3])

\* two patches with values on shared pixels; a shared pixel holds both values
C12_Witness ==
    /\ pcB = "assembled"
    /\ bundle.raised = "no"
    /\ Len(Walked) = 2
    /\ ~NoContribution(Walked[1])
    /\ ~NoContribution(Walked[2])
    /\ \E yx \in DOMAIN bundle.modelimage.pix :
         LET gy == yx[1] + bundle.xyslice[1]
             gx == yx[2] + bundle.xyslice[3]
         IN  /\ ValueAt(Walked[1], gy, gx) > 0
             /\ ValueAt(Walked[2], gy, gx) > 0
             /\ bundle.modelimage.pix[yx]
                  = ValueAt(Walked[1], gy, gx) + ValueAt(Walked[2], gy, gx)

----------------------------------------------------------------------------
(* extract_frame: the bundles of a frame and the frame assembly *)

BundleIdle ==
    /\ pcB = "idle"
    /\ bargs = <<>>
    /\ subbundles = <<>>
    /\ results = <<>>
    /\ rankresults = <<>>
    /\ bundle = <<>>

\* bspecmins = list(range(specmin, specmin+nspec, bundlesize))
Bspecmins(a) == PyRange(a.specmin, a.specmin + a.nspec, a.bundlesize)

\* A bundle output as extract_bundle returns it on the root of a bundle
\* group, its values telling the spectrum, the wavelength bin and the field.
\* Flux is a multiple of the bin width dw, so that flux / dw is exact.
FrameTag(f, row, j) == f + 10 * (j + 10 * row)

BundleArr2(a, f, bspecmin, scale) ==
    [shape |-> <<a.bundlesize, a.nwave>>,
     a |-> [ij \in (0..(a.bundlesize - 1)) \X (0..(a.nwave - 1)) |->
              scale * FrameTag(f, bspecmin + ij[1], ij[2])]]

BundleArr3(a, f, bspecmin) ==
    [shape |-> <<a.bundlesize, 3, a.nwave>>,
     a |-> [idj \in (0..(a.bundlesize - 1)) \X (0..2) \X (0..(a.nwave - 1)) |->
              FrameTag(f, bspecmin + idj[1], idj[3]) + 100000 * idj[2]]]

\* the pixel box of a bundle: every row of the image, the columns of its
\* spectra and one more, so that neighbouring bundles overlap
BundleBox(a, bspecmin) ==
    <<0, a.imgshape[1], bspecmin - a.specmin, bspecmin - a.specmin + a.bundlesize + 1>>

BundleImage(a, bspecmin) ==
    LET box == BundleBox(a, bspecmin)
        ny == box[2] - box[1]
        nx == box[4] - box[3]
    IN  [isnone |-> FALSE, ny |-> ny, nx |-> nx,
         pix |-> [yx \in (0..(ny - 1)) \X (0..(nx - 1)) |->
                    1 + yx[1] + 10 * yx[2] + 100 * bspecmin],
         nonfinite |-> {}]

\* (flux, ivar, resolution, pixmask_fraction, chi2pix, modelimage, xyslice)
BundleOutput(a, bspecmin) ==
    << BundleArr2(a, 1, bspecmin, a.dw),
       BundleArr2(a, 2, bspecmin, 1),
       BundleArr3(a, 3, bspecmin),
       BundleArr2(a, 4, bspecmin, 1),
       BundleArr2(a, 5, bspecmin, 1),
       BundleImage(a, bspecmin),
       BundleBox(a, bspecmin) >>

\* allbundles.sort(key=lambda x: x[0]): a stable sort by bundle start
RECURSIVE InsertByStart(_, _)
InsertByStart(sorted, b) ==
    IF sorted = <<>> THEN <<b>>
    ELSE IF sorted[Len(sorted)][1] <= b[1] THEN Append(sorted, b)
    ELSE Append(InsertByStart(SubSeq(sorted, 1, Len(sorted) - 1), b),
                sorted[Len(sorted)])

RECURSIVE SortFrom(_, _, _)
SortFrom(all, k, sorted) ==
    IF k > Len(all) THEN sorted
    ELSE SortFrom(all, k + 1, InsertByStart(sorted, all[k]))

Unsorted(all) == all
SortByStart(all) == SortFrom(all, 1, <<>>)

\* np.vstack of 2-D arrays: the rows of each array in list order; the
\* arrays must agree in their number of columns
RECURSIVE RowsBefore(_, _)
RowsBefore(arrs, k) ==
    IF k <= 1 THEN 0 ELSE RowsBefore(arrs, k - 1) + arrs[k - 1].shape[1]

\* the array (from 1) holding stacked row r
BlockOf(arrs, r) ==
    CHOOSE k \in 1..Len(arrs) :
        RowsBefore(arrs, k) <= r /\ r < RowsBefore(arrs, k) + arrs[k].shape[1]

VStack2(arrs) ==
    LET rows == RowsBefore(arrs, Len(arrs) + 1)
        cols == arrs[1].shape[2]
        ok == \A k \in 1..Len(arrs) : arrs[k].shape[2] = cols
    IN  [ok |-> ok,
         arr |-> IF ~ok THEN Zeros2(0, 0) ELSE
            [shape |-> <<rows, cols>>,
             a |-> [ij \in (0..(rows - 1)) \X (0..(cols - 1)) |->
                      LET k == BlockOf(arrs, ij[1])
                      IN  arrs[k].a[<<ij[1] - RowsBefore(arrs, k), ij[2]>>]]]]

VStack3(arrs) ==
    LET rows == RowsBefore(arrs, Len(arrs) + 1)
        diags == arrs[1].shape[2]
        cols == arrs[1].shape[3]
        ok == \A k \in 1..Len(arrs) :
                 arrs[k].shape[2] = diags /\ arrs[k].shape[3] = cols
    IN  [ok |-> ok,
         arr |-> IF ~ok THEN Zeros3(0, 0, 0) ELSE
            [shape |-> <<rows, diags, cols>>,
             a |-> [idj \in (0..(rows - 1)) \X (0..(diags - 1)) \X (0..(cols - 1)) |->
                      LET k == BlockOf(arrs, idj[1])
                      IN  arrs[k].a[<<idj[1] - RowsBefore(arrs, k), idj[2], idj[3]>>]]]]

Field(allbundles, f) == [k \in 1..Len(allbundles) |-> allbundles[k][2][f]]

\* modelimage[xyslice] = bundleimage in place of +=
RECURSIVE AddBundleImagesOverwrite(_, _, _)
AddBundleImagesOverwrite(acc, allbundles, k) ==
    IF k > Len(allbundles) \/ ~acc.ok THEN acc
    ELSE LET bundleimage == allbundles[k][2][6]
             xyslice == allbundles[k][2][7]
         IN  AddBundleImagesOverwrite(
                AddAtOverwrite(acc.img, Slice(xyslice[1], xyslice[2]),
                               Slice(xyslice[3], xyslice[4]), bundleimage),
                allbundles, k + 1)

\* the loop of lines 623-626: modelimage[xyslice] += bundleimage
RECURSIVE AddBundleImages(_, _, _)
AddBundleImages(acc, allbundles, k) ==
    IF k > Len(allbundles) \/ ~acc.ok THEN acc
    ELSE LET bundleimage == allbundles[k][2][6]
             xyslice == allbundles[k][2][7]
         IN  AddBundleImages(
                AddAt(acc.img, Slice(xyslice[1], xyslice[2]),
                      Slice(xyslice[3], xyslice[4]), bundleimage),
                allbundles, k + 1)

RaisedFrame(e) ==
    [ raised |-> e,
      specflux |-> Zeros2(0, 0), specivar |-> Zeros2(0, 0),
      specmask |-> Zeros2(0, 0), Rdiags |-> Zeros3(0, 0, 0),
      pixmask_fraction |-> Zeros2(0, 0), chi2pix |-> Zeros2(0, 0),
      modelimage |-> NoImage ]

\* specflux /= dwave, specivar *= dwave**2, (specivar == 0).astype(int);
\* dwave = np.gradient(wave) is dw in every bin of the uniform grid
DivideBy(A, dw) == [A EXCEPT !.a = [ij \in DOMAIN A.a |-> A.a[ij] \div dw]]
TimesSquare(A, dw) == [A EXCEPT !.a = [ij \in DOMAIN A.a |-> A.a[ij] * dw * dw]]
IsZero(A) == [A EXCEPT !.a = [ij \in DOMAIN A.a |-> IF A.a[ij] = 0 THEN 1 ELSE 0]]

\* lines 606-654 on rank 0
FrameOf(a, rb) ==
    LET allbundles == SortByStart(Flatten(rb)) IN
    IF allbundles = <<>> THEN RaisedFrame("ValueError")
    ELSE
      LET specflux == VStack2(Field(allbundles, 1))
          specivar == VStack2(Field(allbundles, 2))
          Rdiags == VStack3(Field(allbundles, 3))
          pixmask_fraction == VStack2(Field(allbundles, 4))
          chi2pix == VStack2(Field(allbundles, 5))
          images == IF a.model
                    THEN AddBundleImages(
                           [ok |-> TRUE, img |-> ZeroImage(a.imgshape[1], a.imgshape[2])],
                           allbundles, 1)
                    ELSE [ok |-> TRUE, img |-> NoImage]
      IN  IF ~(specflux.ok /\ specivar.ok /\ Rdiags.ok /\ pixmask_fraction.ok
               /\ chi2pix.ok /\ images.ok)
          THEN RaisedFrame("ValueError")
          \* np.gradient needs at least two wavelengths
          ELSE IF a.nwave < 2 THEN RaisedFrame("ValueError")
          ELSE [ raised |-> "no",
                 specflux |-> DivideBy(specflux.arr, a.dw),
                 specivar |-> TimesSquare(specivar.arr, a.dw),
                 specmask |-> IsZero(TimesSquare(specivar.arr, a.dw)),
                 Rdiags |-> Rdiags.arr,
                 pixmask_fraction |-> pixmask_fraction.arr,
                 chi2pix |-> chi2pix.arr,
                 modelimage |-> images.img ]

Present == {Flatten(rankbundles)[k][1] : k \in 1..Len(Flatten(rankbundles))}

\* a bundle result reaches rank 0 in the list of one of the groups: the
\* order of arrival across groups is not fixed (lines 570, 584-599)
BundleArrives ==
    /\ pcF = "gather"
    /\ \E bspecmin \in SeqRange(Bspecmins(fargs)) \ Present,
          g \in 1..Len(rankbundles) :
         rankbundles' = [rankbundles EXCEPT
                           ![g] = Append(@, <<bspecmin, BundleOutput(fargs, bspecmin)>>)]
    /\ UNCHANGED <<pcF, fargs, frame>>
    /\ UNCHANGED <<bundleVars, topoVars, mainVars, extractVars, loopVars, callVars>>

\* lines 604-654: every bundle is there exactly once
AssembleFrame ==
    /\ pcF = "gather"
    /\ Present = SeqRange(Bspecmins(fargs))
    /\ frame' = FrameOf(fargs, rankbundles)
    /\ pcF' = "done"
    /\ UNCHANGED <<fargs, rankbundles>>
    /\ UNCHANGED <<bundleVars, topoVars, mainVars, extractVars, loopVars, callVars>>

FrameArgs(specmin, nspec, bundlesize, nwave, dw, model, imgshape) ==
    [ specmin |-> specmin, nspec |-> nspec, bundlesize |-> bundlesize,
      nwave |-> nwave, dw |-> dw, model |-> model, imgshape |-> imgshape ]

InitFrame ==
    /\ BundleIdle
    /\ TopoIdle
    /\ MainIdle
    /\ ExtractIdle
    /\ LoopIdle
    /\ CallIdle
    /\ pcF = "gather"
    /\ \E nbundles \in 1..MaxBundles, bundlesize \in 1..2, k \in 0..1,
          nwave \in 1..2, dw \in 1..2, model \in BOOLEAN :
         fargs = FrameArgs(k * bundlesize, nbundles * bundlesize, bundlesize,
                           nwave, dw, model, <<2, nbundles * bundlesize + 1>>)
    /\ rankbundles = << <<>>, <<>> >>
    /\ frame = RaisedFrame("notrun")

NextFrame == BundleArrives \/ AssembleFrame

SpecFrame == InitFrame /\ [][NextFrame]_vars

----------------------------------------------------------------------------
(* Claims about the frame assembly *)

\* the bundle that holds spectrum row r of the frame, and the row inside it
BundleOfRow(a, r) == a.specmin + (r \div a.bundlesize) * a.bundlesize
RowInBundle(a, r) == r % a.bundlesize

StackedAscending ==
    LET a == fargs
        Out(r) == BundleOutput(a, BundleOfRow(a, r))
    IN  /\ frame.specflux.shape = <<a.nspec, a.nwave>>
        /\ frame.Rdiags.shape = <<a.nspec, 3, a.nwave>>
        /\ \A r \in 0..(a.nspec - 1), j \in 0..(a.nwave - 1) :
             LET i == RowInBundle(a, r) IN
             /\ frame.specflux.a[<<r, j>>] * a.dw = Out(r)[1].a[<<i, j>>]
             /\ frame.specivar.a[<<r, j>>] = Out(r)[2].a[<<i, j>>] * a.dw * a.dw
             /\ \A d \in 0..2 : frame.Rdiags.a[<<r, d, j>>] = Out(r)[3].a[<<i, d, j>>]
             /\ frame.pixmask_fraction.a[<<r, j>>] = Out(r)[4].a[<<i, j>>]
             /\ frame.chi2pix.a[<<r, j>>] = Out(r)[5].a[<<i, j>>]

\* C5: whatever the order and the grouping in which the (bundle start,
\* bundle output) pairs are supplied, each exactly once, the stacked flux,
\* ivar, Rdiags, pixmask_fraction and chi2pix hold the bundle blocks in
\* ascending bundle start.
C5_FrameOrderInvariant ==
    (pcF = "done" /\ fargs.nwave >= 2) =>
        /\ frame.raised = "no"
        /\ StackedAscending

\* bundles supplied out of order, split over both groups
C5_Witness ==
    /\ pcF = "done"
    /\ frame.raised = "no"
    /\ Len(rankbundles[1]) >= 1
    /\ Len(rankbundles[2]) >= 2
    /\ rankbundles[2][1][1] > rankbundles[2][2][1]
    /\ rankbundles[1][1][1] > rankbundles[2][2][1]

\* the value bundle bspecmin brings to pixel (y, x) of the frame
BundleValueAt(a, bspecmin, y, x) ==
    LET box == BundleBox(a, bspecmin) IN
    IF box[1] <= y /\ y < box[2] /\ box[3] <= x /\ x < box[4]
    THEN BundleImage(a, bspecmin).pix[<<y - box[1], x - box[3]>>]
    ELSE 0

RECURSIVE BundleSumAt(_, _, _, _)
BundleSumAt(a, k, y, x) ==
    IF k = 0 THEN 0
    ELSE BundleSumAt(a, k - 1, y, x) + BundleValueAt(a, Bspecmins(a)[k], y, x)

\* C18: when a model image was requested, the frame model image has the
\* shape of the input image and each of its pixels is the sum over all
\* bundles of the bundle's model image placed at the bundle's box,
\* overlapping boxes adding up; when none was requested the frame's model
\* image is None.
C18_FrameModelImage ==
    (pcF = "done" /\ fargs.nwave >= 2) =>
        /\ frame.raised = "no"
        /\ IF fargs.model
           THEN /\ ~frame.modelimage.isnone
                /\ <<frame.modelimage.ny, frame.modelimage.nx>> = fargs.imgshape
                /\ \A y \in 0..(fargs.imgshape[1] - 1), x \in 0..(fargs.imgshape[2] - 1) :
                      frame.modelimage.pix[<<y, x>>]
                         = BundleSumAt(fargs, Len(Bspecmins(fargs)), y, x)
           ELSE frame.modelimage = NoImage

\* a model image was requested and two bundles overlap in a pixel, which
\* holds the sum of both
C18_Witness ==
    /\ pcF = "done"
    /\ frame.raised = "no"
    /\ fargs.model
    /\ Len(Bspecmins(fargs)) >= 2
    /\ \E y \in 0..(fargs.imgshape[1] - 1), x \in 0..(fargs.imgshape[2] - 1) :
          /\ BundleValueAt(fargs, Bspecmins(fargs)[1], y, x) > 0
          /\ BundleValueAt(fargs, Bspecmins(fargs)[2], y, x) > 0
          /\ frame.modelimage.pix[<<y, x>>]
                = BundleValueAt(fargs, Bspecmins(fargs)[1], y, x)
                  + BundleValueAt(fargs, Bspecmins(fargs)[2], y, x)

\* no model image was requested
C18_WitnessNoModel ==
    /\ pcF = "done"
    /\ frame.raised = "no"
    /\ ~fargs.model
    /\ frame.modelimage = NoImage

----------------------------------------------------------------------------
(* decompose_comm, and extract_frame from its start to the bundle loop *)

\* None where the code holds an integer (ranks_per_bundle, device_id) and
\* the value of a local that was never assigned
NoValue == -1

\* the ranks of the communicator passed as comm (None without MPI)
Ranks(a) == 0..(a.size - 1)
WorldComm(a) == IF a.mpi THEN [k \in 1..a.size |-> k - 1] ELSE None

\* comm.Split(color, key) as rank r sees it: the ranks of r's color, ordered
\* by key and then by rank
SplitComm(a, r, color, key) ==
    LET M == {q \in Ranks(a) : color[q] = color[r]}
        Before(q) == {p \in M : key[p] < key[q] \/ (key[p] = key[q] /\ p < q)}
    IN  [k \in 1..Cardinality(M) |-> CHOOSE q \in M : Cardinality(Before(q)) = k - 1]

\* device_count = min(size, device_count)
DeviceCountNoCap(a) == a.devices
DeviceCount(a) == Min(a.size, a.devices)

\* bundle_size: the override if given, else the workers per device
BundleSizeNoOverride(a, device_size) == device_size
BundleSize(a, device_size) ==
    IF a.ranks_per_bundle = NoValue THEN device_size ELSE a.ranks_per_bundle

\* bundle_step = (size - 1) // bundle_size + 1
BundleStepShort(a, bundle_size) == (a.size - 1) \div bundle_size
BundleStep(a, bundle_size) == (a.size - 1) \div bundle_size + 1

TopoRecord(raised, device_count, device_size, device_id, bundle_size, bundle_start, bundle_rank, bundle_step, frame_comm, bundle_comm, splits) ==
    [ raised |-> raised, device_count |-> device_count, device_size |-> device_size,
      device_id |-> device_id, bundle_size |-> bundle_size,
      bundle_start |-> bundle_start, bundle_rank |-> bundle_rank,
      bundle_step |-> bundle_step, frame_comm |-> frame_comm,
      bundle_comm |-> bundle_comm, splits |-> splits ]

RaisedTopo(e) ==
    TopoRecord(e, NoValue, NoValue, NoValue, NoValue, NoValue, NoValue, NoValue,
               None, None, 0)

decompose_comm(a, rank) ==
    IF a.gpu THEN
        LET device_count == DeviceCount(a) IN
        IF device_count = 0 THEN RaisedTopo("ZeroDivisionError")
        ELSE
          LET device_size == a.size \div device_count
              remainder == a.size % device_count
          IN  IF remainder # 0 THEN RaisedTopo("AssertionError")
              ELSE
                LET device_id == rank \div device_size
                    bundle_size == BundleSize(a, device_size)
                    bundle_start == rank \div bundle_size
                    bundle_rank == rank % bundle_size
                    bundle_step == BundleStep(a, bundle_size)
                    StartOf == [q \in Ranks(a) |-> q \div bundle_size]
                    RankOf == [q \in Ranks(a) |-> q % bundle_size]
                IN  IF bundle_step > 1
                    THEN IF bundle_size > 1
                         THEN TopoRecord("no", device_count, device_size, device_id,
                                bundle_size, bundle_start, bundle_rank, bundle_step,
                                SplitComm(a, rank, RankOf, StartOf),
                                SplitComm(a, rank, StartOf, RankOf), 2)
                         ELSE TopoRecord("no", device_count, device_size, device_id,
                                bundle_size, bundle_start, bundle_rank, bundle_step,
                                WorldComm(a), None, 0)
                    ELSE TopoRecord("no", device_count, device_size, device_id,
                           bundle_size, bundle_start, bundle_rank, bundle_step,
                           None, WorldComm(a), 0)
    ELSE TopoRecord("no", NoValue, NoValue, NoValue, NoValue, 0, 0, 1,
                    None, WorldComm(a), 0)

\* seq[start::step] for start >= 0 and step >= 1 (positions from 0)
RECURSIVE StridedFrom(_, _, _)
StridedFrom(seq, start, step) ==
    IF start >= Len(seq) THEN <<>>
    ELSE <<seq[start + 1]>> \o StridedFrom(seq, start + step, step)

StridedNoStart(seq, start, step) == StridedFrom(seq, 0, step)
Strided(seq, start, step) == StridedFrom(seq, start, step)

\* line 485: the worker calls decompose_comm; a raised error ends the worker
Decompose(r) ==
    /\ pcW[r] = "start"
    /\ LET t == decompose_comm(targs, r)
       IN  /\ topo' = [topo EXCEPT ![r] = t]
           /\ pcW' = [pcW EXCEPT ![r] = IF t.raised = "no" THEN "bcast" ELSE "failed"]
           /\ collectives' = [collectives EXCEPT
                                ![r] = @ \o [k \in 1..t.splits |-> "Split"]]
    /\ UNCHANGED <<targs, owned>>
    /\ UNCHANGED <<bundleVars, frameVars, mainVars, extractVars, loopVars, callVars>>

\* lines 496-501: with a communicator the worker enters the broadcasts
EnterBcast(r) ==
    /\ pcW[r] = "bcast"
    /\ targs.mpi
    /\ pcW' = [pcW EXCEPT ![r] = "inbcast"]
    /\ collectives' = [collectives EXCEPT ![r] = Append(@, "bcast")]
    /\ UNCHANGED <<targs, topo, owned>>
    /\ UNCHANGED <<bundleVars, frameVars, mainVars, extractVars, loopVars, callVars>>

\* lines 547-549: after the broadcasts (which end once every rank of comm
\* has entered them) the worker lists the bundles of its loop; a slice step
\* of zero raises ValueError
ListBundles(r) ==
    /\ \/ pcW[r] = "bcast" /\ ~targs.mpi
       \/ pcW[r] = "inbcast" /\ \A q \in Ranks(targs) : pcW[q] \in {"inbcast", "loop"}
    /\ IF topo[r].bundle_step = 0
       THEN /\ pcW' = [pcW EXCEPT ![r] = "failed"]
            /\ owned' = owned
       ELSE /\ pcW' = [pcW EXCEPT ![r] = "loop"]
            /\ owned' = [owned EXCEPT ![r] = Strided(Bspecmins(targs),
                                            topo[r].bundle_start, topo[r].bundle_step)]
    /\ UNCHANGED <<targs, topo, collectives>>
    /\ UNCHANGED <<bundleVars, frameVars, mainVars, extractVars, loopVars, callVars>>

TopoArgs(size, mpi, gpu, devices, ranks_per_bundle, specmin, nspec, bundlesize) ==
    [ size |-> size, mpi |-> mpi, gpu |-> gpu, devices |-> devices,
      ranks_per_bundle |-> ranks_per_bundle,
      specmin |-> specmin, nspec |-> nspec, bundlesize |-> bundlesize ]

InitTopo ==
    /\ BundleIdle
    /\ FrameIdle
    /\ MainIdle
    /\ ExtractIdle
    /\ LoopIdle
    /\ CallIdle
    /\ \E size \in 1..MaxSize, mpi \in BOOLEAN, gpu \in BOOLEAN,
          devices \in 0..MaxDevices,
          ranks_per_bundle \in {NoValue} \cup (1..(MaxSize + 1)),
          nbundles \in 1..MaxBundles, specmin \in {0, 2} :
         /\ mpi \/ size = 1
         /\ gpu \/ devices = 0
         /\ targs = TopoArgs(size, mpi, gpu, devices, ranks_per_bundle,
                             specmin, 2 * nbundles, 2)
    /\ pcW = [r \in Ranks(targs) |-> "start"]
    /\ topo = [r \in Ranks(targs) |-> RaisedTopo("notrun")]
    /\ collectives = [r \in Ranks(targs) |-> <<>>]
    /\ owned = [r \in Ranks(targs) |-> <<>>]

NextTopo ==
    \/ \E r \in Ranks(targs) : Decompose(r)
    \/ \E r \in Ranks(targs) : EnterBcast(r)
    \/ \E r \in Ranks(targs) : ListBundles(r)

SpecTopo == InitTopo /\ [][NextTopo]_vars

----------------------------------------------------------------------------
(* Claims about decompose_comm and the ownership of bundles *)

Members(comm) == SeqRange(comm)
Decomposed(r) == pcW[r] # "start" /\ topo[r].raised = "no"
OverrideGiven == targs.ranks_per_bundle # NoValue

\* workers per device: size / min(size, devices)
WorkersPerDevice == targs.size \div Min(targs.size, targs.devices)

\* the bundle-group size the claims speak of
ClaimedSize == IF OverrideGiven THEN targs.ranks_per_bundle ELSE WorkersPerDevice

GpuRun == targs.gpu /\ targs.devices >= 1 /\ targs.size % Min(targs.size, targs.devices) = 0

SameStart(r, b) == {q \in Ranks(targs) : q \div b = r \div b}
SameRank(r, b) == {q \in Ranks(targs) : q % b = r % b}

C6_Common(r, b) ==
    /\ topo[r].bundle_start = r \div b
    /\ topo[r].bundle_rank = r % b
    /\ (targs.size \div b > 1 /\ b > 1) =>
          /\ Members(topo[r].bundle_comm) = SameStart(r, b)
          /\ Members(topo[r].frame_comm) = SameRank(r, b)
    /\ targs.size \div b = 1 =>
          /\ topo[r].frame_comm = None
          /\ topo[r].bundle_comm = WorldComm(targs)

\* C6 as claimed: with accelerators and a bundle-group size b dividing the
\* worker count, worker r has group id r div b and bundle rank r mod b; with
\* several groups and b > 1 its bundle communicator holds the workers of the
\* same r div b and its frame communicator those of the same r mod b; with
\* b = 1 the frame communicator is the whole group and the bundle
\* communicator is null; with one group covering everyone the frame
\* communicator is null and the bundle communicator is the whole group.
C6_AsClaimed ==
    \A r \in Ranks(targs) :
        (GpuRun /\ Decomposed(r) /\ targs.size % ClaimedSize = 0) =>
            /\ C6_Common(r, ClaimedSize)
            /\ ClaimedSize = 1 =>
                  /\ topo[r].frame_comm = WorldComm(targs)
                  /\ topo[r].bundle_comm = None

\* C6, amended: the b = 1 case is the frame communicator being the whole
\* group and the bundle communicator null only when there is more than one
\* worker; a single worker is one bundle group covering everyone.
C6_GroupsByDivMod ==
    \A r \in Ranks(targs) :
        (GpuRun /\ Decomposed(r) /\ targs.size % ClaimedSize = 0) =>
            /\ C6_Common(r, ClaimedSize)
            /\ (ClaimedSize = 1 /\ targs.size > 1) =>
                  /\ topo[r].frame_comm = WorldComm(targs)
                  /\ topo[r].bundle_comm = None

\* 4 workers, bundle-group size 2: bundle groups {0,1}, {2,3}, frame group {0,2}
C6_Witness ==
    /\ targs.size = 4
    /\ targs.gpu
    /\ targs.ranks_per_bundle = 2
    /\ \A r \in Ranks(targs) : Decomposed(r)
    /\ topo[0].bundle_comm = <<0, 1>>
    /\ topo[3].bundle_comm = <<2, 3>>
    /\ topo[0].frame_comm = <<0, 2>>
    /\ topo[2].frame_comm = <<0, 2>>

\* what decompose_comm derives from a bundle-group size b
UsesSize(r, b) ==
    /\ topo[r].bundle_start = r \div b
    /\ topo[r].bundle_step = (targs.size - 1) \div b + 1
    /\ IF topo[r].bundle_step > 1
       THEN IF b > 1
            THEN /\ Members(topo[r].bundle_comm) = SameStart(r, b)
                 /\ Members(topo[r].frame_comm) = SameRank(r, b)
            ELSE /\ topo[r].bundle_comm = None
                 /\ topo[r].frame_comm = WorldComm(targs)
       ELSE /\ topo[r].bundle_comm = WorldComm(targs)
            /\ topo[r].frame_comm = None

\* C7 as claimed: with the accelerator flag on or off, the bundle-group size
\* behind the group id, the stride and the communication groups is the
\* ranks_per_bundle override when given, workers-per-device otherwise.
C7_AsClaimed ==
    \A r \in Ranks(targs) :
        Decomposed(r) =>
            /\ OverrideGiven => UsesSize(r, targs.ranks_per_bundle)
            /\ (~OverrideGiven /\ targs.gpu) => UsesSize(r, WorkersPerDevice)

\* C7, amended: with accelerators requested the size is the override when
\* given, workers-per-device otherwise; without accelerators the override
\* is not used: group id 0, stride 1, the bundle communicator is the whole
\* group and there is no frame communicator.
C7_SizeIsOverrideWithGpu ==
    \A r \in Ranks(targs) :
        Decomposed(r) =>
            /\ (targs.gpu /\ OverrideGiven) => UsesSize(r, targs.ranks_per_bundle)
            /\ (targs.gpu /\ ~OverrideGiven) => UsesSize(r, WorkersPerDevice)
            /\ ~targs.gpu =>
                  /\ topo[r].bundle_start = 0
                  /\ topo[r].bundle_step = 1
                  /\ topo[r].bundle_comm = WorldComm(targs)
                  /\ topo[r].frame_comm = None

\* an override that differs from workers-per-device, with accelerators
C7_Witness ==
    /\ targs.gpu
    /\ targs.size = 4
    /\ targs.devices = 1
    /\ targs.ranks_per_bundle = 2
    /\ Decomposed(3)
    /\ topo[3].bundle_start = 1
    /\ topo[3].bundle_step = 2

\* the bundle group of a worker: the ranks of its bundle communicator, or
\* the worker alone when it has none
BundleGroup(r) ==
    IF topo[r].bundle_comm = None THEN {r} ELSE Members(topo[r].bundle_comm)

InLoop(r) == pcW[r] = "loop"

NoDuplicates(seq) == \A j, k \in 1..Len(seq) : j # k => seq[j] # seq[k]

\* C8: the bundle lists bspecmins[bundle_start::bundle_step] of distinct
\* bundle groups are pairwise disjoint, all workers of one bundle group own
\* the same list, and together the lists hold every bundle start of
\* range(specmin, specmin+nspec, bundlesize) exactly once.
C8_BundleListsPartition ==
    /\ \A r, q \in Ranks(targs) :
          (InLoop(r) /\ InLoop(q)) =>
             /\ NoDuplicates(owned[r])
             /\ q \in BundleGroup(r) => owned[q] = owned[r]
             /\ q \notin BundleGroup(r) =>
                   SeqRange(owned[q]) \cap SeqRange(owned[r]) = {}
    /\ (\A r \in Ranks(targs) : InLoop(r)) =>
          UNION {SeqRange(owned[r]) : r \in Ranks(targs)} = SeqRange(Bspecmins(targs))

\* two bundle groups of two workers sharing three bundles
C8_Witness ==
    /\ targs.size = 4
    /\ \A r \in Ranks(targs) : InLoop(r)
    /\ BundleGroup(0) = {0, 1}
    /\ BundleGroup(2) = {2, 3}
    /\ Len(owned[0]) = 2
    /\ Len(owned[3]) = 1

\* C10: with accelerators the effective device count is min(workers,
\* devices); if the worker count is not divisible by it the worker fails
\* before it enters any communicator split or other collective; otherwise
\* worker r is bound to device r div (workers / effective devices), a device
\* in [0, effective devices), and every used device gets the same number of
\* workers.
C10_DeviceBinding ==
    targs.gpu =>
        LET eff == Min(targs.size, targs.devices)
            indivisible == IF eff = 0 THEN TRUE ELSE targs.size % eff # 0
        IN
        /\ \A r \in Ranks(targs) :
              pcW[r] # "start" =>
                 IF indivisible
                 THEN /\ pcW[r] = "failed"
                      /\ topo[r].raised = IF eff = 0 THEN "ZeroDivisionError"
                                          ELSE "AssertionError"
                      /\ topo[r].splits = 0
                      /\ collectives[r] = <<>>
                 ELSE /\ topo[r].raised = "no"
                      /\ topo[r].device_count = eff
                      /\ topo[r].device_id = r \div (targs.size \div eff)
                      /\ topo[r].device_id \in 0..(eff - 1)
        /\ (\A r \in Ranks(targs) : Decomposed(r)) =>
              \A d \in 0..(eff - 1) :
                 Cardinality({r \in Ranks(targs) : topo[r].device_id = d})
                    = targs.size \div eff

\* three workers on two devices: the assertion fails
C10_Witness ==
    /\ targs.gpu
    /\ targs.size = 3
    /\ targs.devices = 2
    /\ \A r \in Ranks(targs) : pcW[r] = "failed" /\ collectives[r] = <<>>

\* two workers, three devices: only two devices are used, one worker each
C10_WitnessBound ==
    /\ targs.gpu
    /\ targs.size = 2
    /\ targs.devices = 3
    /\ \A r \in Ranks(targs) : Decomposed(r) /\ topo[r].device_id = r

----------------------------------------------------------------------------
(* spex.py: check_input_options and main_gpu_specter, one process *)

MaxOption == 3      \* bundlesize, nsubbundles and specmin range over 0..MaxOption
MaxNspec == 4       \* nspec ranges over 0..MaxNspec
MaxGpus == 2        \* devices seen by cupy range over 0..MaxGpus

\* the format strings of the pre-flight messages
MsgSubbundles == "bundlesize ({}) must be evenly divisible by nsubbundles ({})"
MsgNspec == "nspec ({}) must be evenly divisible by bundlesize ({})"
MsgSpecmin == "specmin ({}) must begin at a bundle boundary"
MsgImport == "cannot import module cupy"
MsgNoGpu == "gpu is not available"
MsgNoMpi == "mpi is required to run with multiple gpu devices"
MsgZeroDivision == "integer division or modulo by zero"

Message(text, values) == [text |-> text, values |-> values]

Checked(raised, ok, message) == [raised |-> raised, ok |-> ok, message |-> message]

\* cupy.is_available(): the runtime reports at least one device
CupyIsAvailable(args) == args.devices > 0

\* the checks after the three divisibility checks.  spex.py imports cupy
\* when the module is loaded (line 4), so the import inside the function
\* finds it whenever main_gpu_specter runs at all.
CheckGpuOptions(args) ==
    IF ~args.gpu THEN Checked("no", TRUE, Message("OK", <<>>))
    ELSE IF ~CupyIsAvailable(args)
    THEN Checked("no", FALSE, Message(MsgNoGpu, <<>>))
    ELSE IF args.devices > 1 /\ ~args.mpi
    THEN Checked("no", FALSE, Message(MsgNoMpi, <<>>))
    ELSE Checked("no", TRUE, Message("OK", <<>>))

\* check_input_options(args): (ok, message), or the exception of a % by zero
check_input_options(args) ==
    IF args.nsubbundles = 0
    THEN Checked("ZeroDivisionError", FALSE, Message(MsgZeroDivision, <<>>))
    ELSE IF args.bundlesize % args.nsubbundles # 0
    THEN Checked("no", FALSE,
                 Message(MsgSubbundles, <<args.bundlesize, args.nsubbundles>>))
    ELSE IF args.bundlesize = 0
    THEN Checked("ZeroDivisionError", FALSE, Message(MsgZeroDivision, <<>>))
    ELSE IF args.nspec % args.bundlesize # 0
    THEN Checked("no", FALSE, Message(MsgNspec, <<args.nspec, args.bundlesize>>))
    ELSE IF args.specmin % args.bundlesize # 0
    THEN Checked("no", FALSE, Message(MsgSpecmin, <<args.specmin>>))
    ELSE CheckGpuOptions(args)

NoMessage == Message("", <<>>)

\* the run of main_gpu_specter before its first statement
FreshRun ==
    [ raised |-> "no", message |-> NoMessage, critical |-> NoMessage,
      comm |-> "unset", inputs_read |-> FALSE, collectives |-> <<>>,
      extract_started |-> FALSE, frame |-> "None" ]

Fail(run, exc, message) == [run EXCEPT !.raised = exc, !.message = message]

\* lines 99-103: the pre-flight checks
Preflight ==
    /\ pcM = "start"
    /\ LET c == check_input_options(margs) IN
       IF c.raised # "no"
       THEN /\ mrun' = Fail(mrun, c.raised, c.message)
            /\ pcM' = "failed"
       ELSE IF ~c.ok
       THEN /\ mrun' = [Fail(mrun, "ValueError", c.message)
                           EXCEPT !.critical = c.message]
            /\ pcM' = "failed"
       ELSE /\ mrun' = mrun
            /\ pcM' = "checked"
    /\ UNCHANGED margs
    /\ UNCHANGED <<bundleVars, frameVars, topoVars, extractVars, loopVars, callVars>>

\* lines 105-114: the communicator of the run
LoadMPI ==
    /\ pcM = "checked"
    /\ mrun' = [mrun EXCEPT !.comm =
                   IF margs.comm # "None" THEN margs.comm
                   ELSE IF margs.mpi THEN "COMM_WORLD" ELSE "None"]
    /\ pcM' = "init"
    /\ UNCHANGED margs
    /\ UNCHANGED <<bundleVars, frameVars, topoVars, extractVars, loopVars, callVars>>

\* only the communicator wrapper a caller passes has read, write,
\* is_extract_rank and extract_comm
HasReadWrite(comm) == comm = "wrapper"

\* lines 119-128: comm.read(read_data, (None, None))
ReadData ==
    /\ pcM = "init"
    /\ IF HasReadWrite(mrun.comm)
       THEN /\ mrun' = [mrun EXCEPT !.inputs_read = TRUE,
                                    !.collectives = Append(@, "read")]
            /\ pcM' = "loaded"
       ELSE /\ mrun' = Fail(mrun, "AttributeError", NoMessage)
            /\ pcM' = "failed"
    /\ UNCHANGED margs
    /\ UNCHANGED <<bundleVars, frameVars, topoVars, extractVars, loopVars, callVars>>

\* lines 131-154: the extraction on the extract ranks. The call passes
\* args.gpu where extract_frame has rank (lines 136-147): with --gpu no
\* worker has rank == 0, the image handed to the solver is None and
\* extract_frame returns None if it returns, so that line 150 raises on
\* the root; without, every worker has rank == 0 and assembles a frame,
\* which raises on a worker that holds no bundle data
Extract ==
    /\ pcM = "loaded"
    /\ IF ~margs.extract_rank
       THEN /\ mrun' = mrun
            /\ pcM' = "extracted"
       ELSE IF margs.gpu
       THEN \E solver_raises \in BOOLEAN :
              IF solver_raises \/ margs.extract_root
              THEN /\ mrun' = [Fail(mrun, "TypeError", NoMessage)
                                 EXCEPT !.extract_started = TRUE]
                   /\ pcM' = "failed"
              ELSE /\ mrun' = [mrun EXCEPT !.extract_started = TRUE]
                   /\ pcM' = "extracted"
       ELSE IF margs.extract_root
       THEN /\ mrun' = [mrun EXCEPT !.extract_started = TRUE, !.frame = "dict"]
            /\ pcM' = "extracted"
       ELSE /\ mrun' = [Fail(mrun, "TypeError", NoMessage)
                          EXCEPT !.extract_started = TRUE]
            /\ pcM' = "failed"
    /\ UNCHANGED margs
    /\ UNCHANGED <<bundleVars, frameVars, topoVars, extractVars, loopVars, callVars>>

\* lines 158-176: comm.write(write_data, frame) and the timing summary
WriteData ==
    /\ pcM = "extracted"
    /\ mrun' = [mrun EXCEPT !.collectives = Append(@, "write")]
    /\ pcM' = "done"
    /\ UNCHANGED margs
    /\ UNCHANGED <<bundleVars, frameVars, topoVars, extractVars, loopVars, callVars>>

MainArgs ==
    { [ bundlesize |-> bs, nsubbundles |-> ns, nspec |-> n, specmin |-> s,
        gpu |-> g, mpi |-> m, devices |-> d, comm |-> c,
        extract_rank |-> er, extract_root |-> e0 ] :
      bs \in 0..MaxOption, ns \in 0..MaxOption, n \in 0..MaxNspec,
      s \in 0..MaxOption, g \in BOOLEAN, m \in BOOLEAN, d \in 0..MaxGpus,
      c \in {"None", "wrapper"}, er \in BOOLEAN, e0 \in BOOLEAN }

InitMain ==
    /\ BundleIdle
    /\ FrameIdle
    /\ TopoIdle
    /\ ExtractIdle
    /\ LoopIdle
    /\ CallIdle
    /\ pcM = "start"
    /\ margs \in {a \in MainArgs :
                     /\ a.comm = "None" => (a.extract_rank /\ a.extract_root)
                     /\ a.extract_root => a.extract_rank}
    /\ mrun = FreshRun

NextMain == Preflight \/ LoadMPI \/ ReadData \/ Extract \/ WriteData

SpecMain == InitMain /\ [][NextMain]_vars

----------------------------------------------------------------------------
(* Claims about the pre-flight checks *)

\* n is not a multiple of d
NotDivisible(n, d) == IF d = 0 THEN n # 0 ELSE n % d # 0

FaultSubbundles == NotDivisible(margs.bundlesize, margs.nsubbundles)
FaultNspec == NotDivisible(margs.nspec, margs.bundlesize)
FaultSpecmin == NotDivisible(margs.specmin, margs.bundlesize)
FaultNoGpu == margs.gpu /\ margs.devices = 0
FaultNoMpi == margs.gpu /\ margs.devices > 1 /\ ~margs.mpi

ConfigFault ==
    FaultSubbundles \/ FaultNspec \/ FaultSpecmin \/ FaultNoGpu \/ FaultNoMpi

\* the message of the failure names a constraint the options violate
MessageNamesFault ==
    \/ mrun.message = Message(MsgSubbundles, <<margs.bundlesize, margs.nsubbundles>>)
          /\ FaultSubbundles
    \/ mrun.message = Message(MsgNspec, <<margs.nspec, margs.bundlesize>>)
          /\ FaultNspec
    \/ mrun.message = Message(MsgSpecmin, <<margs.specmin>>) /\ FaultSpecmin
    \/ mrun.message = Message(MsgNoGpu, <<>>) /\ FaultNoGpu
    \/ mrun.message = Message(MsgNoMpi, <<>>) /\ FaultNoMpi

NothingStarted ==
    /\ pcM \in {"start", "failed"}
    /\ ~mrun.inputs_read
    /\ mrun.collectives = <<>>
    /\ ~mrun.extract_started
    /\ mrun.frame = "None"

FailsWithMessage ==
    /\ NothingStarted
    /\ pcM = "failed" => (mrun.raised = "ValueError" /\ MessageNamesFault)

\* C9: with a configuration fault (bundlesize not divisible by nsubbundles,
\* nspec not divisible by bundlesize, specmin off a bundle boundary,
\* accelerator requested but unavailable, several devices without
\* multi-process) main_gpu_specter fails with a message naming the violated
\* constraint before any input is read, any collective is entered or any
\* extraction starts, and no frame is produced.
C9_ConfigFaultFailsWithMessage ==
    (pcM # "idle" /\ ConfigFault) => FailsWithMessage

\* The same for options whose divisors bundlesize and nsubbundles are not 0.
ConfigFaultNonzeroDivisors ==
    (pcM # "idle" /\ ConfigFault /\ margs.bundlesize > 0 /\ margs.nsubbundles > 0)
        => FailsWithMessage

\* a fault stopped by the pre-flight checks with its message
FaultReported ==
    /\ pcM = "failed"
    /\ ConfigFault
    /\ mrun.raised = "ValueError"
    /\ mrun.message = Message(MsgSpecmin, <<margs.specmin>>)

----------------------------------------------------------------------------
(* extract_bundle with a communicator: the workers of one bundle group,      *)
(* each a process of its own with its own Patch objects                      *)

MaxRanks == 3           \* bundle group: largest number of workers
MaxGroupPatches == 4    \* bundle group: largest number of patches in the bundle

XRanks == 0..(xargs.size - 1)
XNTiles == Len(WaveStarts(xargs.b))
XNSub == Len(SpecStarts(xargs.b))
XNPatches == XNSub * XNTiles

\* position (from 1) in the flattened list of line 281, sub-bundle major
SubOf(k) == ((k - 1) \div XNTiles) + 1
TileOf(k) == ((k - 1) % XNTiles) + 1

\* if gpu and batch_subbundle (line 242)
Batched(a) == a.gpu /\ a.batch_subbundle

\* patches[rank::size] (line 282), as positions in the flattened list
AssignedContiguous(rank) ==
    LET n == (XNPatches + xargs.size - 1) \div xargs.size
    IN  SubSeq([k \in 1..XNPatches |-> k], rank * n + 1, Min((rank + 1) * n, XNPatches))
AssignedPatches(rank) == StridedFrom([k \in 1..XNPatches |-> k], rank, xargs.size)

\* subbundles[rank::size] (line 243), as positions in subbundles
AssignedSubbundles(rank) == StridedFrom([k \in 1..XNSub |-> k], rank, xargs.size)

\* the results this model lets the solver return for a patch of the group
GroupKinds == {"off_vals", "on_vals"}

\* lines 225-235: every worker builds the descriptors of the whole bundle
XOrganize(r) ==
    /\ pcX[r] = "start"
    /\ xsub' = [xsub EXCEPT ![r] = OrganizedPatches(xargs.b)]
    /\ pcX' = [pcX EXCEPT ![r] = "organized"]
    /\ UNCHANGED <<xargs, xres, xlog, xsent, xroot>>
    /\ UNCHANGED <<bundleVars, frameVars, topoVars, mainVars, loopVars, callVars>>

\* lines 282-293: one pass of the loop over patches[rank::size]
XExtractPatch(r) ==
    /\ pcX[r] = "organized"
    /\ ~Batched(xargs)
    /\ Len(xres[r]) < Len(AssignedPatches(r))
    /\ LET k == AssignedPatches(r)[Len(xres[r]) + 1]
           s == SubOf(k)
           w == TileOf(k)
       IN  \E kind \in GroupKinds :
             LET result == SolverResult(xsub[r][s][w], kind)
                 patch == [xsub[r][s][w] EXCEPT !.xyslice = result.xyslice]
             IN  /\ xsub' = [xsub EXCEPT ![r][s][w] = patch]
                 /\ xres' = [xres EXCEPT ![r] = Append(@, <<patch, result>>)]
                 /\ xlog' = [xlog EXCEPT ![r] = @ \o << <<"write", k>>, <<"record", k>> >>]
    /\ UNCHANGED <<pcX, xargs, xsent, xroot>>
    /\ UNCHANGED <<bundleVars, frameVars, topoVars, mainVars, loopVars, callVars>>

\* lines 243-279: one pass of the loop over subbundles[rank::size]: prepare
\* every patch of the sub-bundle (which sets its xyslice), extract the batch,
\* finalize every patch and append its result
XExtractBatch(r) ==
    /\ pcX[r] = "organized"
    /\ Batched(xargs)
    /\ Len(xres[r]) < Len(AssignedSubbundles(r)) * XNTiles
    /\ LET s == AssignedSubbundles(r)[(Len(xres[r]) \div XNTiles) + 1]
       IN  \E kinds \in [1..XNTiles -> GroupKinds] :
             LET result == [w \in 1..XNTiles |-> SolverResult(xsub[r][s][w], kinds[w])]
                 patch == [w \in 1..XNTiles |->
                             [xsub[r][s][w] EXCEPT !.xyslice = result[w].xyslice]]
                 first == (s - 1) * XNTiles
             IN  /\ xsub' = [xsub EXCEPT ![r][s] = patch]
                 /\ xres' = [xres EXCEPT ![r] =
                               @ \o [w \in 1..XNTiles |-> <<patch[w], result[w]>>]]
                 /\ xlog' = [xlog EXCEPT ![r] =
                               @ \o [w \in 1..XNTiles |-> <<"write", first + w>>]
                                 \o [w \in 1..XNTiles |-> <<"record", first + w>>]]
    /\ UNCHANGED <<pcX, xargs, xsent, xroot>>
    /\ UNCHANGED <<bundleVars, frameVars, topoVars, mainVars, loopVars, callVars>>

\* the worker has walked all it was assigned
Extracted(r) ==
    /\ pcX[r] = "organized"
    /\ IF Batched(xargs)
       THEN Len(xres[r]) = Len(AssignedSubbundles(r)) * XNTiles
       ELSE Len(xres[r]) = Len(AssignedPatches(r))

\* the flux list filled from the end of results
PayloadFluxReversed(res) ==
    IF xargs.gpu
    THEN [ patches |-> [i \in 1..Len(res) |-> res[i][1]],
           flux |-> [i \in 1..Len(res) |-> res[Len(res) + 1 - i][2].flux],
           fluxivar |-> [i \in 1..Len(res) |-> res[i][2].ivar],
           resolution |-> [i \in 1..Len(res) |-> res[i][2].Rdiags],
           pixmask_fraction |-> [i \in 1..Len(res) |-> res[i][2].pixmask_fraction],
           chi2pix |-> [i \in 1..Len(res) |-> res[i][2].chi2pix],
           modelimage |-> [i \in 1..Len(res) |-> res[i][2].modelimage] ]
    ELSE [ results |-> res ]

\* lines 299-324 with gpu: the patches and a list per field; line 355
\* without: the results list
Payload(res) ==
    IF xargs.gpu
    THEN [ patches |-> [i \in 1..Len(res) |-> res[i][1]],
           flux |-> [i \in 1..Len(res) |-> res[i][2].flux],
           fluxivar |-> [i \in 1..Len(res) |-> res[i][2].ivar],
           resolution |-> [i \in 1..Len(res) |-> res[i][2].Rdiags],
           pixmask_fraction |-> [i \in 1..Len(res) |-> res[i][2].pixmask_fraction],
           chi2pix |-> [i \in 1..Len(res) |-> res[i][2].chi2pix],
           modelimage |-> [i \in 1..Len(res) |-> res[i][2].modelimage] ]
    ELSE [ results |-> res ]

\* comm.gather(x, root=0): the items of all ranks, in rank order
GatherRootOnly(item) == <<item[0]>>
Gather(item) == [q \in 1..xargs.size |-> item[q - 1]]

\* gather_ndarray(x, comm, root=0): the arrays of all ranks joined along the
\* first axis, in rank order
GatherNdarray(part) == Flatten(Gather(part))

\* the dict of lines 343-346
Repacked(flux, ivar, Rdiags, pixmask_fraction, chi2pix, modelimage) ==
    [ flux |-> flux, ivar |-> ivar, Rdiags |-> Rdiags,
      pixmask_fraction |-> pixmask_fraction, chi2pix |-> chi2pix,
      modelimage |-> modelimage ]

\* zip(a, b) ends with the shorter
ZipLen(a, b) == Min(Len(a), Len(b))

\* lines 327-355 on rank 0: what the gathers give, repacked with gpu
GatheredResults ==
    IF xargs.gpu
    THEN LET patches == Flatten(Gather([q \in XRanks |-> xsent[q][1].patches]))
             flux == GatherNdarray([q \in XRanks |-> xsent[q][1].flux])
             fluxivar == GatherNdarray([q \in XRanks |-> xsent[q][1].fluxivar])
             resolution == GatherNdarray([q \in XRanks |-> xsent[q][1].resolution])
             pixmask_fraction ==
                 GatherNdarray([q \in XRanks |-> xsent[q][1].pixmask_fraction])
             chi2pix == GatherNdarray([q \in XRanks |-> xsent[q][1].chi2pix])
             modelimage == Flatten(Gather([q \in XRanks |-> xsent[q][1].modelimage]))
             n == Min(ZipLen(patches, flux),
                      Min(ZipLen(fluxivar, resolution),
                          Min(ZipLen(pixmask_fraction, chi2pix), Len(modelimage))))
         IN  << [i \in 1..n |->
                   <<patches[i], Repacked(flux[i], fluxivar[i], resolution[i],
                                          pixmask_fraction[i], chi2pix[i],
                                          modelimage[i])>>] >>
    ELSE Gather([q \in XRanks |-> xsent[q][1].results])

\* lines 359-361 and 389 without a communicator: rankresults = [results,],
\* the assembly, return
XAssembleAlone(r) ==
    /\ Extracted(r)
    /\ ~xargs.comm
    /\ xroot' = [rankresults |-> <<xres[r]>>,
                 bundle |-> assemble_bundle_patches(<<xres[r]>>)]
    /\ pcX' = [pcX EXCEPT ![r] = "done"]
    /\ UNCHANGED <<xargs, xsub, xres, xlog, xsent>>
    /\ UNCHANGED <<bundleVars, frameVars, topoVars, mainVars, loopVars, callVars>>

\* lines 295-355 on a rank other than 0: hand the results to the gathers,
\* return None
XSend(r) ==
    /\ Extracted(r)
    /\ xargs.comm
    /\ r # 0
    /\ xsent' = [xsent EXCEPT ![r] = <<Payload(xres[r])>>]
    /\ pcX' = [pcX EXCEPT ![r] = "done"]
    /\ UNCHANGED <<xargs, xsub, xres, xlog, xroot>>
    /\ UNCHANGED <<bundleVars, frameVars, topoVars, mainVars, loopVars, callVars>>

\* lines 295-355 on rank 0: enter the gathers
XRootEnter(r) ==
    /\ Extracted(r)
    /\ xargs.comm
    /\ r = 0
    /\ xsent' = [xsent EXCEPT ![r] = <<Payload(xres[r])>>]
    /\ pcX' = [pcX EXCEPT ![r] = "gather"]
    /\ UNCHANGED <<xargs, xsub, xres, xlog, xroot>>
    /\ UNCHANGED <<bundleVars, frameVars, topoVars, mainVars, loopVars, callVars>>

\* rank 0 leaves the gathers when every rank has entered them, repacks,
\* assembles and returns the bundle (lines 335-389)
XRootAssemble(r) ==
    /\ pcX[r] = "gather"
    /\ \A q \in XRanks : xsent[q] # <<>>
    /\ xroot' = [rankresults |-> GatheredResults,
                 bundle |-> assemble_bundle_patches(GatheredResults)]
    /\ pcX' = [pcX EXCEPT ![r] = "done"]
    /\ UNCHANGED <<xargs, xsub, xres, xlog, xsent>>
    /\ UNCHANGED <<bundleVars, frameVars, topoVars, mainVars, loopVars, callVars>>

ExtractArgs(b, size, comm, gpu, batch_subbundle) ==
    [ b |-> b, size |-> size, comm |-> comm, gpu |-> gpu,
      batch_subbundle |-> batch_subbundle ]

InitExtract ==
    /\ BundleIdle
    /\ FrameIdle
    /\ TopoIdle
    /\ MainIdle
    /\ LoopIdle
    /\ CallIdle
    /\ \E bundlesize \in 1..2, nsubbundles \in 1..2,
          nwave \in 1..MaxAsmNwave, nwavestep \in 1..2,
          wavepad \in 0..1, size \in 1..MaxRanks,
          comm \in BOOLEAN, gpu \in BOOLEAN, batch_subbundle \in BOOLEAN :
            /\ bundlesize % nsubbundles = 0
            /\ wavepad = nwavestep - 1
            /\ comm \/ size = 1
            /\ xargs = ExtractArgs(BundleArgs(0, bundlesize, nsubbundles,
                                              nwave, nwavestep, wavepad, 0),
                                   size, comm, gpu, batch_subbundle)
            /\ NPatches(xargs.b) <= MaxGroupPatches
    /\ pcX = [r \in XRanks |-> "start"]
    /\ xsub = [r \in XRanks |-> <<>>]
    /\ xres = [r \in XRanks |-> <<>>]
    /\ xlog = [r \in XRanks |-> <<>>]
    /\ xsent = [r \in XRanks |-> <<>>]
    /\ xroot = [rankresults |-> <<>>, bundle |-> NoBundle]

NextExtract ==
    \/ \E r \in XRanks : XOrganize(r)
    \/ \E r \in XRanks : XExtractPatch(r)
    \/ \E r \in XRanks : XExtractBatch(r)
    \/ \E r \in XRanks : XAssembleAlone(r)
    \/ \E r \in XRanks : XSend(r)
    \/ \E r \in XRanks : XRootEnter(r)
    \/ \E r \in XRanks : XRootAssemble(r)

SpecExtract == InitExtract /\ [][NextExtract]_vars

----------------------------------------------------------------------------
(* Claims about the workers of extract_bundle *)

\* the position (from 0) of a descriptor in the flattened patch list of the
\* bundle, sub-bundle major and wavelength tile minor, from its own fields
PositionOf(p) ==
    ((p.ispec - p.bspecmin) \div p.nspectra_per_patch) * XNTiles
        + ((p.iwave - p.wavepad) \div p.nwavestep)

ExtractedPositions(r) == [i \in 1..Len(xres[r]) |-> PositionOf(xres[r][i][1])]

\* how many of 0..(n-1) are r, r+s, r+2s, ...
CountFrom(r, step, n) == IF r >= n THEN 0 ELSE ((n - 1 - r) \div step) + 1

\* r, r+s, r+2s, ... below the number of patches
EveryNthPatch(r) ==
    [i \in 1..CountFrom(r, xargs.size, XNPatches) |-> r + (i - 1) * xargs.size]

\* the patches of the sub-bundles r, r+s, r+2s, ..., each sub-bundle whole
EveryNthSubbundle(r) ==
    [i \in 1..(CountFrom(r, xargs.size, XNSub) * XNTiles) |->
        (r + ((i - 1) \div XNTiles) * xargs.size) * XNTiles + ((i - 1) % XNTiles)]

IsPrefix(a, b) == Len(a) <= Len(b) /\ a = SubSeq(b, 1, Len(a))

Finished(r) == pcX[r] \in {"gather", "done"}

\* C13 as claimed: in per-patch and in batched mode the worker of rank r in
\* a group of size s extracts the elements r, r+s, r+2s, ... of the
\* flattened patch list, in that order.
C13_AsClaimed ==
    \A r \in XRanks :
        /\ IsPrefix(ExtractedPositions(r), EveryNthPatch(r))
        /\ Finished(r) => ExtractedPositions(r) = EveryNthPatch(r)

\* C13, amended: in per-patch mode the worker extracts the elements r, r+s,
\* r+2s, ... of the flattened patch list, in that order; in batched mode it
\* extracts the sub-bundles r, r+s, r+2s, ... of the sub-bundle list, each
\* with all its wavelength tiles in order.
C13_StridedPatchesOrSubbundles ==
    \A r \in XRanks :
        LET expected == IF Batched(xargs) THEN EveryNthSubbundle(r)
                        ELSE EveryNthPatch(r)
        IN  /\ IsPrefix(ExtractedPositions(r), expected)
            /\ Finished(r) => ExtractedPositions(r) = expected

\* two workers, two sub-bundles of two tiles, batched: rank 1 extracted the
\* second sub-bundle, positions 2 and 3
C13_Witness ==
    /\ Batched(xargs)
    /\ xargs.size = 2
    /\ XNSub = 2
    /\ XNTiles = 2
    /\ Finished(1)
    /\ ExtractedPositions(1) = <<2, 3>>

\* two workers, four patches, one patch per solver call: rank 1 extracted
\* positions 1 and 3
C13_WitnessPerPatch ==
    /\ ~Batched(xargs)
    /\ xargs.size = 2
    /\ XNPatches = 4
    /\ Finished(1)
    /\ ExtractedPositions(1) = <<1, 3>>

\* the descriptor at position k (from 1) of the flattened list of worker r
Descriptor(sub, r, k) == sub[r][SubOf(k)][TileOf(k)]

\* the positions (from 1) worker r has appended a result for
Recorded(res, r) == {PositionOf(res[r][i][1]) + 1 : i \in 1..Len(res[r])}

\* in the log of a worker every position is written at most once and each
\* append of a result comes after the write of that position
LogInOrder(log) ==
    \A i, j \in 1..Len(log) :
        /\ (i # j /\ log[i][1] = "write" /\ log[j][1] = "write") => log[i][2] # log[j][2]
        /\ log[j][1] = "record" =>
              \E m \in 1..(j - 1) : log[m] = <<"write", log[j][2]>>

\* one step of the group, seen from the descriptors
LifecycleStep ==
    /\ \A r \in XRanks :
          /\ xlog'[r] # xlog[r] => LogInOrder(xlog'[r])
          \* creation: every bounding box is None
          /\ (xsub[r] = <<>> /\ xsub'[r] # <<>>) =>
                \A k \in 1..XNPatches : Descriptor(xsub', r, k).xyslice = None
          \* afterwards: a descriptor changes in its bounding box only, only
          \* in the step in which this worker extracts it and appends its
          \* result, and only if it has not done so before
          /\ xsub[r] # <<>> =>
                \A k \in 1..XNPatches :
                   LET old == Descriptor(xsub, r, k)
                       new == Descriptor(xsub', r, k)
                   IN  /\ new = [old EXCEPT !.xyslice = new.xyslice]
                       /\ old.xyslice # None => new = old
                       /\ k \in Recorded(xres, r) => new = old
                       /\ new # old => k \in Recorded(xres', r)
                       /\ k \in Recorded(xres', r) \ Recorded(xres, r) =>
                             \E i \in 1..Len(xres'[r]) : xres'[r][i][1] = new
    \* the assembly input holds the descriptors as their workers left them,
    \* and the assembly leaves every worker's descriptors alone
    /\ xroot' # xroot =>
          /\ xsub' = xsub
          /\ LET all == Flatten(xroot'.rankresults)
             IN  \A i \in 1..Len(all) :
                    \E r \in XRanks : \E j \in 1..Len(xres[r]) :
                        all[i][1] = xres[r][j][1]

\* C16: the bounding box of a descriptor is None from its creation by the
\* partitioner, is written once, by the worker that extracts the patch and
\* before the patch's result is appended, and is not written afterwards,
\* neither by assemble_bundle_patches nor later; no other field of a
\* descriptor changes after creation.
C16_PatchLifecycle == [][LifecycleStep]_vars

\* two workers: rank 1 has put a box on the patch it extracted, the copy of
\* that descriptor on rank 0 still has none, and rank 0 has assembled
C16_Witness ==
    /\ xargs.size = 2
    /\ pcX[0] = "done"
    /\ pcX[1] = "done"
    /\ XNPatches >= 2
    /\ Descriptor(xsub, 1, 2).xyslice # None
    /\ Descriptor(xsub, 0, 2).xyslice = None
    /\ xlog[1] = << <<"write", 2>>, <<"record", 2>> >>

\* how many entries of the sequence of positions hold k
Occurrences(positions, k) == Cardinality({i \in 1..Len(positions) : positions[i] = k})

\* the pairs of the assembly input on the root, flattened
AssemblyInput == Flatten(xroot.rankresults)

\* the fields a result keeps through both gather paths
Carried(result) ==
    Repacked(result.flux, result.ivar, result.Rdiags,
             result.pixmask_fraction, result.chi2pix, result.modelimage)

\* the pair is one a worker appended to its results
PairWasExtracted(pair) ==
    \E r \in XRanks : \E i \in 1..Len(xres[r]) :
        /\ xres[r][i][1] = pair[1]
        /\ Carried(xres[r][i][2]) = Carried(pair[2])

\* C19: for every group size and in both modes, no patch of the bundle is
\* extracted twice, by one worker or by two; once every worker has walked
\* its share each patch has been extracted by exactly one worker; and the
\* assembly input of the root holds exactly one (patch, result) pair per
\* patch of the bundle, the result being the one extracted for that patch.
C19_EachPatchOnce ==
    /\ \A k \in 0..(XNPatches - 1) :
          /\ Cardinality({r \in XRanks : Occurrences(ExtractedPositions(r), k) > 0}) <= 1
          /\ \A r \in XRanks : Occurrences(ExtractedPositions(r), k) <= 1
          /\ (\A r \in XRanks : Finished(r) \/ pcX[r] = "done") =>
                \E r \in XRanks : Occurrences(ExtractedPositions(r), k) = 1
    /\ pcX[0] = "done" =>
          /\ Len(AssemblyInput) = XNPatches
          /\ \A k \in 0..(XNPatches - 1) :
                Occurrences([i \in 1..Len(AssemblyInput) |->
                                PositionOf(AssemblyInput[i][1])], k) = 1
          /\ \A i \in 1..Len(AssemblyInput) : PairWasExtracted(AssemblyInput[i])

\* three workers and two patches, through the host transfer path: rank 2
\* extracted nothing and the root assembled from both pairs
C19_Witness ==
    /\ xargs.size = 3
    /\ xargs.gpu
    /\ XNPatches = 2
    /\ pcX[0] = "done"
    /\ xres[2] = <<>>
    /\ Len(xres[1]) = 1
    /\ Len(AssemblyInput) = 2

\* two workers and four patches, results gathered as lists of pairs
C19_WitnessPairs ==
    /\ xargs.size = 2
    /\ ~xargs.gpu
    /\ XNPatches = 4
    /\ pcX[0] = "done"
    /\ Len(xroot.rankresults) = 2
    /\ Len(xroot.rankresults[2]) = 2

----------------------------------------------------------------------------
(* extract_frame: the bundle loop of every worker and the frame gather *)

MaxWorkers == 3         \* bundle loop: largest number of workers
MaxLoopBundles == 3     \* bundle loop: largest number of bundles in the frame

\* what decompose_comm returned to the worker (line 485)
LoopTopo(r) == decompose_comm(largs.t, r)
BundleComm(r) == LoopTopo(r).bundle_comm
FrameComm(r) == LoopTopo(r).frame_comm

\* the workers that share the bundle-level communicator of r
BundleMembers(r) == IF BundleComm(r) = None THEN {r} ELSE SeqRange(BundleComm(r))

\* bundle_comm is None or bundle_comm.rank == 0 (line 581); inside
\* extract_bundle rank 0 of comm is the root of the gathers (lines 190-195)
IsLeader(r) == IF BundleComm(r) = None THEN TRUE ELSE BundleComm(r)[1] = r

\* frame_comm.rank == 0: the root of the frame gathers
IsFrameRoot(r) == IF FrameComm(r) = None THEN FALSE ELSE FrameComm(r)[1] = r

\* bspecmins[bundle_start::bundle_step] (line 549)
LoopBundles(r) ==
    Strided(Bspecmins(largs.t), LoopTopo(r).bundle_start, LoopTopo(r).bundle_step)

\* the bundle of the pass the worker is in
Current(r) == LoopBundles(r)[lidx[r] + 1]

\* how many collectives of the kind the worker has entered
EnteredCount(log, kind) == Cardinality({i \in 1..Len(log) : log[i][1] = kind})

\* extract_bundle on its rank 0 (lines 363-389): assemble_bundle_patches
\* raises for a bundle without a patch on the image (line 120)
AssembleRaises(bspecmin) == bspecmin \in largs.off

\* lines 554-567 with bundle_comm None: the worker extracts and assembles
\* the bundle by itself and appends it (line 570); there is no barrier
LoopAlone(r) ==
    /\ pcL[r] = "loop"
    /\ lidx[r] < Len(LoopBundles(r))
    /\ BundleComm(r) = None
    /\ IF AssembleRaises(Current(r))
       THEN /\ pcL' = [pcL EXCEPT ![r] = "failed"]
            /\ lraised' = [lraised EXCEPT ![r] = "TypeError"]
            /\ UNCHANGED <<lidx, lbundles>>
       ELSE /\ lbundles' = [lbundles EXCEPT ![r] = Append(@, <<Current(r), TRUE>>)]
            /\ lidx' = [lidx EXCEPT ![r] = @ + 1]
            /\ UNCHANGED <<pcL, lraised>>
    /\ UNCHANGED <<largs, lcoll, lgathered>>
    /\ UNCHANGED <<bundleVars, frameVars, topoVars, mainVars, extractVars, callVars>>

\* lines 554-567 and core.py:295-355: the worker extracts its patches of the
\* bundle and enters the gathers of extract_bundle
EnterGather(r) ==
    /\ pcL[r] = "loop"
    /\ lidx[r] < Len(LoopBundles(r))
    /\ BundleComm(r) # None
    /\ lcoll' = [lcoll EXCEPT ![r] = Append(@, <<"gather", Current(r)>>)]
    /\ pcL' = [pcL EXCEPT ![r] = "gather"]
    /\ UNCHANGED <<largs, lidx, lbundles, lraised, lgathered>>
    /\ UNCHANGED <<bundleVars, frameVars, topoVars, mainVars, extractVars, callVars>>

\* lines 355-389 and 570: a gather to the root ends on the root once every
\* member has entered it, on another rank once its part is handed over;
\* rank 0 assembles, the others return None
LeaveGather(r) ==
    /\ pcL[r] = "gather"
    /\ IsLeader(r) =>
          \A q \in BundleMembers(r) : EnteredCount(lcoll[q], "gather") >= lidx[r] + 1
    /\ IF IsLeader(r) /\ AssembleRaises(Current(r))
       THEN /\ pcL' = [pcL EXCEPT ![r] = "failed"]
            /\ lraised' = [lraised EXCEPT ![r] = "TypeError"]
            /\ UNCHANGED lbundles
       ELSE /\ lbundles' = [lbundles EXCEPT ![r] = Append(@, <<Current(r), IsLeader(r)>>)]
            /\ pcL' = [pcL EXCEPT ![r] = "appended"]
            /\ UNCHANGED lraised
    /\ UNCHANGED <<largs, lidx, lcoll, lgathered>>
    /\ UNCHANGED <<bundleVars, frameVars, topoVars, mainVars, extractVars, callVars>>

\* lines 573-574: bundle_comm.barrier()
EnterBarrier(r) ==
    /\ pcL[r] = "appended"
    /\ lcoll' = [lcoll EXCEPT ![r] = Append(@, <<"barrier", Current(r)>>)]
    /\ pcL' = [pcL EXCEPT ![r] = "barrier"]
    /\ UNCHANGED <<largs, lidx, lbundles, lraised, lgathered>>
    /\ UNCHANGED <<bundleVars, frameVars, topoVars, mainVars, extractVars, callVars>>

\* the barrier ends once every member of bundle_comm has entered it
LeaveBarrier(r) ==
    /\ pcL[r] = "barrier"
    /\ \A q \in BundleMembers(r) : EnteredCount(lcoll[q], "barrier") >= lidx[r] + 1
    /\ lidx' = [lidx EXCEPT ![r] = @ + 1]
    /\ pcL' = [pcL EXCEPT ![r] = "loop"]
    /\ UNCHANGED <<largs, lbundles, lcoll, lraised, lgathered>>
    /\ UNCHANGED <<bundleVars, frameVars, topoVars, mainVars, extractVars, callVars>>

\* lines 579-581 and 597-599: after the loop, without a frame communicator
\* the worker keeps its own list; with one, a worker that is not the leader
\* of its bundle group skips the gathers
Stage(r) ==
    /\ pcL[r] = "loop"
    /\ lidx[r] = Len(LoopBundles(r))
    /\ IF FrameComm(r) = None THEN TRUE ELSE ~IsLeader(r)
    /\ pcL' = [pcL EXCEPT ![r] = "done"]
    /\ UNCHANGED <<largs, lidx, lbundles, lcoll, lraised, lgathered>>
    /\ UNCHANGED <<bundleVars, frameVars, topoVars, mainVars, extractVars, callVars>>

\* lines 581-584: the leader unpacks `bspecmins, bundles = zip(*bundles)`,
\* which raises ValueError for an empty list (nothing to unpack), and then
\* enters the frame gathers
EnterFrameGather(r) ==
    /\ pcL[r] = "loop"
    /\ lidx[r] = Len(LoopBundles(r))
    /\ FrameComm(r) # None
    /\ IsLeader(r)
    /\ IF lbundles[r] = <<>>
       THEN /\ pcL' = [pcL EXCEPT ![r] = "failed"]
            /\ lraised' = [lraised EXCEPT ![r] = "ValueError"]
            /\ UNCHANGED lcoll
       ELSE /\ pcL' = [pcL EXCEPT ![r] = "frame_gather"]
            /\ lcoll' = [lcoll EXCEPT ![r] = Append(@, <<"frame_gather", 0>>)]
            /\ UNCHANGED lraised
    /\ UNCHANGED <<largs, lidx, lbundles, lgathered>>
    /\ UNCHANGED <<bundleVars, frameVars, topoVars, mainVars, extractVars, callVars>>

\* the bundle extract_bundle returns for bspecmin: (flux, ivar, Rdiags,
\* pixmask_fraction, chi2pix, modelimage, xyslice), each value telling its
\* field and its bundle
BundleFieldNames ==
    <<"flux", "ivar", "Rdiags", "pixmask_fraction", "chi2pix", "modelimage", "xyslice">>

BundleTuple(bspecmin) == [f \in 1..7 |-> <<BundleFieldNames[f], bspecmin>>]

\* lines 582-583 on the worker q: zip(*bundles) gives the bundle starts and,
\* per field f, the tuple of that field over the worker's bundles
OwnStarts(q) == [i \in 1..Len(lbundles[q]) |-> lbundles[q][i][1]]
OwnFieldReversed(q, f) ==
    [i \in 1..Len(lbundles[q]) |-> BundleTuple(lbundles[q][Len(lbundles[q]) + 1 - i][1])[f]]
OwnField(q, f) == [i \in 1..Len(lbundles[q]) |-> BundleTuple(lbundles[q][i][1])[f]]

\* frame_comm.gather(x, root=0) on the root: the values in rank order
FrameGather(comm, f) ==
    [k \in 1..Len(comm) |-> IF f = 0 THEN OwnStarts(comm[k]) ELSE OwnField(comm[k], f)]

\* gather_ndarray(x, frame_comm) on the root: the arrays of all ranks joined
\* along the first axis, in rank order
FrameGatherNdarray(comm, f) == Flatten(FrameGather(comm, f))

\* lines 593-596: the flattened lists zipped into (bspecmin, bundle) pairs;
\* zip ends with the shortest list
Rezipped(comm) ==
    LET bspecmin == Flatten(FrameGather(comm, 0))
        flux == FrameGatherNdarray(comm, 1)
        ivar == FrameGatherNdarray(comm, 2)
        resolution == FrameGatherNdarray(comm, 3)
        pixmask_fraction == FrameGatherNdarray(comm, 4)
        chi2pix == FrameGatherNdarray(comm, 5)
        modelimage == Flatten(FrameGather(comm, 6))
        mxy == Flatten(FrameGather(comm, 7))
        n == Min(Len(bspecmin),
                 Min(ZipLen(flux, ivar),
                     Min(ZipLen(resolution, pixmask_fraction),
                         Min(ZipLen(chi2pix, modelimage), Len(mxy)))))
    IN  [i \in 1..n |->
            <<bspecmin[i], <<flux[i], ivar[i], resolution[i], pixmask_fraction[i],
                             chi2pix[i], modelimage[i], mxy[i]>> >>]

\* lines 584-596: the gathers end on the root once every member of
\* frame_comm has entered them; the root receives the lists in rank order
\* and builds rankbundles
LeaveFrameGather(r) ==
    /\ pcL[r] = "frame_gather"
    /\ IsFrameRoot(r) =>
          \A q \in SeqRange(FrameComm(r)) : EnteredCount(lcoll[q], "frame_gather") >= 1
    /\ lgathered' = IF IsFrameRoot(r)
                    THEN [ bspecmins |-> FrameGather(FrameComm(r), 0),
                           rankbundles |-> <<Rezipped(FrameComm(r))>> ]
                    ELSE lgathered
    /\ pcL' = [pcL EXCEPT ![r] = "done"]
    /\ UNCHANGED <<largs, lidx, lbundles, lcoll, lraised>>
    /\ UNCHANGED <<bundleVars, frameVars, topoVars, mainVars, extractVars, callVars>>

\* lines 479-485: extract_frame sets ranks_per_bundle to 1 with gpu and
\* leaves it None without
LoopArgs(size, mpi, gpu, devices, nbundles, off) ==
    [ t |-> TopoArgs(size, mpi, gpu, devices, IF gpu THEN 1 ELSE NoValue,
                     0, 2 * nbundles, 2),
      off |-> off ]

\* the workers have left decompose_comm and the broadcasts: the number of
\* workers is a multiple of the number of devices used
InitLoop ==
    /\ BundleIdle
    /\ FrameIdle
    /\ TopoIdle
    /\ MainIdle
    /\ ExtractIdle
    /\ CallIdle
    /\ \E size \in 1..MaxWorkers, mpi \in BOOLEAN, gpu \in BOOLEAN,
          devices \in 0..2, nbundles \in 1..MaxLoopBundles :
         \E off \in {{}} \cup {{2 * k} : k \in 0..(nbundles - 1)} :
            /\ mpi \/ size = 1
            /\ gpu <=> devices > 0
            /\ gpu => size % Min(size, devices) = 0
            /\ largs = LoopArgs(size, mpi, gpu, devices, nbundles, off)
    /\ pcL = [r \in Ranks(largs.t) |-> "loop"]
    /\ lidx = [r \in Ranks(largs.t) |-> 0]
    /\ lbundles = [r \in Ranks(largs.t) |-> <<>>]
    /\ lcoll = [r \in Ranks(largs.t) |-> <<>>]
    /\ lraised = [r \in Ranks(largs.t) |-> "no"]
    /\ lgathered = <<>>

NextLoop ==
    \/ \E r \in Ranks(largs.t) : LoopAlone(r)
    \/ \E r \in Ranks(largs.t) : EnterGather(r)
    \/ \E r \in Ranks(largs.t) : LeaveGather(r)
    \/ \E r \in Ranks(largs.t) : EnterBarrier(r)
    \/ \E r \in Ranks(largs.t) : LeaveBarrier(r)
    \/ \E r \in Ranks(largs.t) : Stage(r)
    \/ \E r \in Ranks(largs.t) : EnterFrameGather(r)
    \/ \E r \in Ranks(largs.t) : LeaveFrameGather(r)

SpecLoop == InitLoop /\ [][NextLoop]_vars

----------------------------------------------------------------------------
(* Claims about the collectives of extract_frame *)

\* the gathers and barriers of the bundle loop the worker has entered
BundleLevel(log) == SelectSeq(log, LAMBDA e : e[1] \in {"gather", "barrier"})

\* gather and barrier of each bundle of the list, in list order
LockstepLog(bspecmins) ==
    [i \in 1..(2 * Len(bspecmins)) |->
        <<IF i % 2 = 1 THEN "gather" ELSE "barrier", bspecmins[(i + 1) \div 2]>>]

LoopEnded(r) == pcL[r] \in {"done", "frame_gather"}

\* the members of a bundle group enter the same collectives in the same
\* order for the same bundles, and none is a bundle ahead of a member that
\* has not entered the barrier of the bundle before
SameCollectives ==
    \A r \in Ranks(largs.t) :
        BundleComm(r) # None =>
            \A q \in BundleMembers(r) :
                /\ LoopBundles(q) = LoopBundles(r)
                /\ IsPrefix(BundleLevel(lcoll[r]), LockstepLog(LoopBundles(r)))
                /\ LoopEnded(r) => BundleLevel(lcoll[r]) = LockstepLog(LoopBundles(r))
                /\ EnteredCount(lcoll[q], "barrier") >= lidx[r]

\* the worker waits in a bundle-level collective for a member that has
\* ended without entering it
BlockedInBundle(r) ==
    \E q \in BundleMembers(r) :
        /\ pcL[q] = "failed"
        /\ \/ /\ pcL[r] = "barrier"
              /\ EnteredCount(lcoll[q], "barrier") < lidx[r] + 1
           \/ /\ pcL[r] = "gather"
              /\ IsLeader(r)
              /\ EnteredCount(lcoll[q], "gather") < lidx[r] + 1

\* C17: the workers of a bundle group enter the gather and the barrier of
\* each bundle the same number of times, in the same order and for the same
\* bundle starts, none is a bundle ahead of the barrier of another, and no
\* worker waits in a bundle-level collective that another never enters.
C17_GroupInLockstep ==
    /\ SameCollectives
    /\ \A r \in Ranks(largs.t) : ~BlockedInBundle(r)

\* what holds of C17: the order of the collectives, and nobody waits for
\* ever unless the assembly of a bundle raised on the root of the group
LockstepUnlessRaised ==
    /\ SameCollectives
    /\ (\A r \in Ranks(largs.t) : lraised[r] # "TypeError") =>
          \A r \in Ranks(largs.t) : ~BlockedInBundle(r)

\* three workers went through two bundles together
LockstepReached ==
    /\ largs.t.size = 3
    /\ ~largs.t.gpu
    /\ \A r \in Ranks(largs.t) :
          /\ pcL[r] = "done"
          /\ lcoll[r] = LockstepLog(<<0, 2>>)

\* the frame root waits in the frame gather for a leader that has ended
\* without entering it
BlockedInFrame(r) ==
    /\ pcL[r] = "frame_gather"
    /\ IsFrameRoot(r)
    /\ \E q \in SeqRange(FrameComm(r)) :
          pcL[q] = "failed" /\ EnteredCount(lcoll[q], "frame_gather") = 0

\* C20: with a frame communicator and every bundle on the image, no leader
\* raises between its bundle loop and the frame gather, whatever the number
\* of bundles, and the frame root does not wait for a leader that never
\* enters the gather.
C20_LeadersReachFrameGather ==
    largs.off = {} =>
        \A r \in Ranks(largs.t) :
            /\ lraised[r] = "no"
            /\ ~BlockedInFrame(r)

\* what holds of C20: with at least as many bundles as bundle groups every
\* leader enters the frame gather and the root is not left waiting
LeadersWithBundlesReach ==
    (largs.off = {} /\ Len(Bspecmins(largs.t)) >= largs.t.size) =>
        \A r \in Ranks(largs.t) :
            /\ lraised[r] = "no"
            /\ ~BlockedInFrame(r)

\* three leaders, three bundles: the root has gathered one bundle of each
FrameGatherReached ==
    /\ largs.t.size = 3
    /\ largs.t.gpu
    /\ \A r \in Ranks(largs.t) : pcL[r] = "done"
    /\ lgathered # <<>>
    /\ lgathered.bspecmins = << <<0>>, <<2>>, <<4>> >>

----------------------------------------------------------------------------
(* extract_frame as its callers bind its arguments *)

MaxCallWorkers == 3     \* call: largest number of workers in comm

\* the ways extract_frame is called: positionally as main_gpu_specter does
\* (spex.py:136-147), with rank=comm.rank and gpu given by keyword, and
\* with comm and gpu by keyword and rank left at its default
CallWays == {"main", "by_rank", "defaults"}

\* the parameter rank of extract_frame (core.py:448-449). The thirteenth
\* positional argument of the call in main is args.gpu, which lands in
\* rank: True is 1 and False is 0
RankParam(r) ==
    CASE cargs.how = "main" -> IF cargs.gpuflag THEN 1 ELSE 0
      [] cargs.how = "by_rank" -> r
      [] OTHER -> 0

\* the parameter gpu: main passes twelve arguments before args.gpu and
\* args.loglevel, which land in rank and size, so gpu keeps its default None
GpuParam == IF cargs.how = "main" THEN FALSE ELSE cargs.gpuflag

\* lines 479-485
CallTopoArgs ==
    TopoArgs(cargs.size, cargs.mpi, GpuParam, cargs.devices,
             IF GpuParam THEN 1 ELSE NoValue, 0, 2 * cargs.nbundles, 2)

CallTopo(r) == decompose_comm(CallTopoArgs, r)

\* extract_bundle returns the bundle on rank 0 of bundle_comm, None elsewhere
CallLeader(r) ==
    IF CallTopo(r).bundle_comm = None THEN TRUE ELSE CallTopo(r).bundle_comm[1] = r

\* the bundles list after the loop: (bspecmin, bundle or None)
CallBundles(r) ==
    LET mine == Strided(Bspecmins(CallTopoArgs), CallTopo(r).bundle_start,
                        CallTopo(r).bundle_step)
    IN  [i \in 1..Len(mine) |-> <<mine[i], CallLeader(r)>>]

Unassigned == [assigned |-> FALSE, value |-> <<>>]
Assigned(v) == [assigned |-> TRUE, value |-> v]

\* lines 490-493: imgpixels = img['image'] if rank == 0, else None
SupplyInputs(r) ==
    /\ pcC[r] = "start"
    /\ cimg' = [cimg EXCEPT ![r] = IF RankParam(r) = 0 THEN "image" ELSE "None"]
    /\ csupplied' = [csupplied EXCEPT ![r] = (RankParam(r) = 0)]
    /\ pcC' = [pcC EXCEPT ![r] = IF cargs.mpi THEN "bcast" ELSE "loop"]
    /\ UNCHANGED <<cargs, cstaged, cread, cframe>>
    /\ UNCHANGED <<bundleVars, frameVars, topoVars, mainVars, extractVars, loopVars>>

\* lines 496-501: comm.bcast(imgpixels, root=0) gives every worker what rank
\* 0 of comm holds
BcastInputs(r) ==
    /\ pcC[r] = "bcast"
    /\ pcC[0] # "start"
    /\ cimg' = [cimg EXCEPT ![r] = cimg[0]]
    /\ pcC' = [pcC EXCEPT ![r] = "loop"]
    /\ UNCHANGED <<cargs, csupplied, cstaged, cread, cframe>>
    /\ UNCHANGED <<bundleVars, frameVars, topoVars, mainVars, extractVars, loopVars>>

\* lines 547-599: the bundle loop and the staging of rankbundles. The
\* solver is external: given None for the image it may raise. With a frame
\* communicator the gathers give the root every leader's bundles and every
\* other rank None, and only a worker whose parameter rank is 0 builds
\* rankbundles from them (lines 592-596)
RunLoop(r) ==
    /\ pcC[r] = "loop"
    /\ \E solver_raises \in BOOLEAN :
         /\ solver_raises => cimg[r] = "None"
         /\ LET t == CallTopo(r)
                root == IF t.frame_comm = None THEN FALSE ELSE t.frame_comm[1] = r
                iterates_none == t.frame_comm # None /\ RankParam(r) = 0 /\ ~root
            IN  /\ root => \A q \in SeqRange(t.frame_comm) \ {r} :
                              pcC[q] \in {"staged", "done"}
                /\ IF solver_raises \/ iterates_none
                   THEN /\ pcC' = [pcC EXCEPT ![r] = "failed"]
                        /\ cframe' = [cframe EXCEPT ![r] = "TypeError"]
                        /\ UNCHANGED cstaged
                   ELSE /\ pcC' = [pcC EXCEPT ![r] = "staged"]
                        /\ cstaged' = [cstaged EXCEPT ![r] =
                              IF t.frame_comm = None THEN Assigned(<<CallBundles(r)>>)
                              ELSE IF RankParam(r) = 0
                              THEN Assigned(<<Flatten([k \in 1..Len(t.frame_comm) |->
                                                CallBundles(t.frame_comm[k])])>>)
                              ELSE Unassigned]
                        /\ UNCHANGED cframe
    /\ UNCHANGED <<cargs, cimg, csupplied, cread>>
    /\ UNCHANGED <<bundleVars, frameVars, topoVars, mainVars, extractVars, loopVars>>

\* lines 604-619 and 656-671: a worker whose parameter rank is 0 reads
\* rankbundles and stacks b[1][0] of every pair, which raises TypeError
\* for a pair that holds None; the others return None
Finish(r) ==
    /\ pcC[r] = "staged"
    /\ cread' = [cread EXCEPT ![r] = (RankParam(r) = 0)]
    /\ cframe' = [cframe EXCEPT ![r] =
          IF RankParam(r) # 0 THEN "None"
          ELSE IF ~cstaged[r].assigned THEN "NameError"
          ELSE IF \E i \in 1..Len(Flatten(cstaged[r].value)) :
                     ~Flatten(cstaged[r].value)[i][2]
          THEN "TypeError"
          ELSE "dict"]
    /\ pcC' = [pcC EXCEPT ![r] = "done"]
    /\ UNCHANGED <<cargs, cimg, csupplied, cstaged>>
    /\ UNCHANGED <<bundleVars, frameVars, topoVars, mainVars, extractVars, loopVars>>

CallArgs(how, size, mpi, gpuflag, devices, nbundles) ==
    [ how |-> how, size |-> size, mpi |-> mpi, gpuflag |-> gpuflag,
      devices |-> devices, nbundles |-> nbundles ]

\* every worker of comm makes the same call; with gpu the number of workers
\* is a multiple of the number of devices used and there is a bundle for
\* every worker
InitCall ==
    /\ BundleIdle
    /\ FrameIdle
    /\ TopoIdle
    /\ MainIdle
    /\ ExtractIdle
    /\ LoopIdle
    /\ \E how \in CallWays, size \in 1..MaxCallWorkers, mpi \in BOOLEAN,
          gpuflag \in BOOLEAN, devices \in 0..2, extra \in 0..1 :
            /\ mpi \/ size = 1
            /\ gpuflag <=> devices > 0
            /\ gpuflag => size % Min(size, devices) = 0
            /\ cargs = CallArgs(how, size, mpi, gpuflag, devices, size + extra)
    /\ pcC = [r \in 0..(cargs.size - 1) |-> "start"]
    /\ cimg = [r \in 0..(cargs.size - 1) |-> "unset"]
    /\ csupplied = [r \in 0..(cargs.size - 1) |-> FALSE]
    /\ cstaged = [r \in 0..(cargs.size - 1) |-> Unassigned]
    /\ cread = [r \in 0..(cargs.size - 1) |-> FALSE]
    /\ cframe = [r \in 0..(cargs.size - 1) |-> "unset"]

NextCall ==
    \/ \E r \in 0..(cargs.size - 1) : SupplyInputs(r)
    \/ \E r \in 0..(cargs.size - 1) : BcastInputs(r)
    \/ \E r \in 0..(cargs.size - 1) : RunLoop(r)
    \/ \E r \in 0..(cargs.size - 1) : Finish(r)

SpecCall == InitCall /\ [][NextCall]_vars

----------------------------------------------------------------------------
(* Claims about the roles of the workers in extract_frame *)

MultiProcess == cargs.mpi /\ cargs.size > 1

\* rank 0 of comm alone supplies the inputs, reads the gathered bundles and
\* returns a frame; the others return None
RootAlone ==
    \A r \in 0..(cargs.size - 1) :
        /\ csupplied[r] => r = 0
        /\ (r = 0 /\ pcC[r] # "start") => csupplied[r]
        /\ cread[r] => r = 0
        /\ pcC[r] # "failed"
        /\ pcC[r] = "done" => cframe[r] = IF r = 0 THEN "dict" ELSE "None"

\* C21: in a multi-process run, however extract_frame is called, the worker
\* of rank 0 in comm and no other supplies the broadcast inputs, assembles
\* the frame and returns it; every other worker returns None and does not
\* read gathered bundle data.
C21_RootAloneAssembles == MultiProcess => RootAlone

\* what holds of C21: the roles are as claimed when the caller passes
\* rank=comm.rank
RootAloneWhenRankPassed == (MultiProcess /\ cargs.how = "by_rank") => RootAlone

\* three workers called with rank=comm.rank have returned: rank 0 a frame,
\* the others None
RolesReached ==
    /\ cargs.how = "by_rank"
    /\ cargs.size = 3
    /\ \A r \in 0..2 : pcC[r] = "done"
    /\ cframe = [r \in 0..2 |-> IF r = 0 THEN "dict" ELSE "None"]

----------------------------------------------------------------------------
(* The two gathers that take lists apart and zip them back *)

\* the workers of one bundle group in extract_bundle, or the workers of
\* extract_frame in and after their bundle loop
InitPairing == InitExtract \/ InitLoop

NextPairing ==
    \/ pcX # <<>> /\ NextExtract
    \/ pcL # <<>> /\ NextLoop

SpecPairing == InitPairing /\ [][NextPairing]_vars

\* the pair holds the descriptor of a patch, with the box the solver gave
\* for it, and the arrays and the model image the solver gave for that patch
PairedForPatch(pair) ==
    LET created == [pair[1] EXCEPT !.xyslice = None] IN
    \E kind \in GroupKinds :
        /\ pair[1].xyslice = SolverResult(created, kind).xyslice
        /\ Carried(pair[2]) = Carried(SolverResult(created, kind))

\* every bundle of the frame, as many as the leaders appended
GatheredBundles == Flatten([k \in 1..Len(FrameComm(0)) |-> lbundles[FrameComm(0)[k]]])

\* C22: in the host transfer path of extract_bundle the i-th descriptor of
\* the root's re-zipped list is paired with the flux, ivar, Rdiags,
\* pixmask_fraction, chi2pix and model image produced for that patch, for
\* every number of workers and of patches per worker; and in extract_frame
\* every gathered bundle start is paired with the seven values of that
\* bundle, none lost.
C22_RepackKeepsPairs ==
    /\ (pcX # <<>> /\ pcX[0] = "done") =>
           ((xargs.gpu /\ xargs.comm) =>
               /\ Len(AssemblyInput) = XNPatches
               /\ \A i \in 1..Len(AssemblyInput) : PairedForPatch(AssemblyInput[i]))
    /\ (pcL # <<>> /\ lgathered # <<>>) =>
           /\ Len(lgathered.rankbundles[1]) = Len(GatheredBundles)
           /\ \A i \in 1..Len(lgathered.rankbundles[1]) :
                 LET pair == lgathered.rankbundles[1][i]
                 IN  pair[2] = BundleTuple(pair[1])

\* two workers with two patches each through the host transfer path: the
\* root has assembled from four pairs, those of rank 1 behind those of rank 0
C22_Witness ==
    /\ pcX # <<>>
    /\ xargs.gpu
    /\ xargs.comm
    /\ xargs.size = 2
    /\ XNPatches = 4
    /\ pcX[0] = "done"
    /\ Len(xres[1]) = 2
    /\ AssemblyInput[3][1] = xres[1][1][1]

\* two leaders, three bundles: the root has zipped two bundles of rank 0 and
\* one of rank 1
C22_WitnessFrame ==
    /\ pcL # <<>>
    /\ lgathered # <<>>
    /\ lgathered.bspecmins = << <<0, 4>>, <<2>> >>
    /\ Len(lgathered.rankbundles[1]) = 3

----------------------------------------------------------------------------
(* extract_frame: the padded wavelength array and the patches made for it *)

\* wavepad = 10 (line 530)
FrameWavepad == 10

\* lines 536-542 without the extra nwavestep bins of wavehi
FullwaveLenNoExtra(a) == a.wavepad + a.nwave + a.wavepad

\* lines 536-542: fullwave = concatenate((wavelo, wave, wavehi)) with
\* wavepad, nwave and wavepad + nwavestep elements
FullwaveLen(a) ==
    LET wavelo == a.wavepad
        wave == a.nwave
        wavehi == a.wavepad + a.nwavestep
    IN  wavelo + wave + wavehi

\* the bundles extract_frame asks for: its wavepad, any number of
\* wavelengths and any step
InitWindow ==
    /\ pcB = "start"
    /\ \/ \E bundlesize \in 1..2, nsubbundles \in 1..2,
             nwave \in 1..MaxNwave, nwavestep \in 1..MaxNwavestep, k \in 0..1 :
               /\ bundlesize % nsubbundles = 0
               /\ bargs = BundleArgs(k * bundlesize, bundlesize, nsubbundles,
                                     nwave, nwavestep, FrameWavepad, 1)
       \/ bargs = DefaultBundle
    /\ subbundles = <<>>
    /\ results = <<>>
    /\ rankresults = <<>>
    /\ bundle = NoBundle
    /\ FrameIdle
    /\ TopoIdle
    /\ MainIdle
    /\ ExtractIdle
    /\ LoopIdle
    /\ CallIdle

NextWindow == OrganizePatches

SpecWindow == InitWindow /\ [][NextWindow]_vars

\* the padded wavelength window of a patch as index range of fullwave
WindowStart(p) == p.iwave - p.wavepad
WindowStop(p) == p.iwave + p.nwavestep + p.wavepad

\* C23: the padded window [iwave - wavepad, iwave + nwavestep + wavepad) of
\* every patch made for a bundle of extract_frame lies inside the index
\* range of fullwave, the final partial tile included.
C23_WindowInsideFullwave ==
    pcB = "organized" =>
        \A s \in 1..Len(subbundles) : \A w \in 1..Len(subbundles[s]) :
            /\ 0 <= WindowStart(subbundles[s][w])
            /\ WindowStart(subbundles[s][w]) < WindowStop(subbundles[s][w])
            /\ WindowStop(subbundles[s][w]) <= FullwaveLen(bargs)

\* a final partial tile whose window reaches into the extra bins of wavehi
C23_Witness ==
    /\ pcB = "organized"
    /\ bargs.wavepad = FrameWavepad
    /\ LET n == Len(subbundles[1])
           last == subbundles[1][n]
       IN  /\ n >= 2
           /\ last.keepslice.stop < bargs.nwavestep
           /\ WindowStop(last) > FullwaveLenNoExtra(bargs)
           /\ WindowStop(last) <= FullwaveLen(bargs)

====
